---------------------------- MODULE Spec2Model ----------------------------
(***************************************************************************)
(* A model of the gmalg library (SM2 / SM3 / SM9 / block cipher modes).    *)
(*                                                                         *)
(* The number-theoretic code is modelled operator by operator from the     *)
(* Python source.  The 256-bit curve and field parameters are replaced by  *)
(* small ones of the same shape (same residue class of p modulo 8, prime   *)
(* group order n < p, cofactor 1), and the 64-byte SM3 block, the 32-byte  *)
(* digest and the 16-byte cipher block by short ones, so that TLC can      *)
(* enumerate every key, every random draw and every chunking.              *)
(***************************************************************************)
EXTENDS Integers, Sequences, FiniteSets, TLC

(***************************************************************************)
(* Bounds of the model.                                                    *)
(***************************************************************************)
\* SM3 block length in bytes (64 in sm3.py), scaled down.
BlockLen == 4
\* Length of the bit-length field that ends the SM3 padding (8 in sm3.py).
LenFieldLen == 1
\* Digest length in bytes (32 in sm3.py), scaled down.
HashLen == 1
\* Longest message / plaintext fed to the SM2 operations.
MaxPlainLen == 2
MaxValueCalls == 2
\* Block length in bytes of the block cipher under the working modes.
BcBlockLen == 2
\* Calls of encrypt / decrypt on a mode object between two resets.
MaxCalls == 2
MaxResets == 1
\* The largest counter of _key_derivation_fn, 0xffffffff in the source.
MaxCt == 7
\* The bit length of ENTL at which entity_info raises, 16 in the source.
EntlBits == 6

(***************************************************************************)
(* Byte strings are sequences of integers in 0..255.                       *)
(***************************************************************************)
RECURSIVE Pow2(_)
Pow2(k) == IF k <= 0 THEN 1 ELSE 2 * Pow2(k - 1)

RECURSIVE Pow256(_)
Pow256(k) == IF k <= 0 THEN 1 ELSE 256 * Pow256(k - 1)

\* int.bit_length()
RECURSIVE bit_length(_)
bit_length(i) ==
    IF i < 0 THEN bit_length(0 - i) ELSE IF i = 0 THEN 0 ELSE 1 + bit_length(i \div 2)

\* f"{k:b}": the binary digits of k >= 0, most significant first ("0" for 0).
RECURSIVE BinDigits(_)
BinDigits(k) == IF k < 2 THEN <<k>> ELSE Append(BinDigits(k \div 2), k % 2)

\* i.to_bytes(len, "big")
RECURSIVE to_bytes(_, _)
to_bytes(i, len) ==
    IF len <= 0 THEN <<>> ELSE Append(to_bytes(i \div 256, len - 1), i % 256)

\* int.from_bytes(b, "big")
RECURSIVE from_bytes(_)
from_bytes(b) ==
    IF Len(b) = 0 THEN 0
    ELSE 256 * from_bytes(SubSeq(b, 1, Len(b) - 1)) + b[Len(b)]

bytes_to_int(b) == from_bytes(b)

\* An index of a Python slice of b: negative ones count from the end, and
\* all are clipped to the string.
SliceIndex(b, i) ==
    IF i < 0 THEN (IF i + Len(b) < 0 THEN 0 ELSE i + Len(b))
    ELSE IF i > Len(b) THEN Len(b) ELSE i

\* b[lo:hi] of Python, 0-based, hi exclusive.
Slice(b, lo, hi) ==
    LET l == SliceIndex(b, lo)
        h == SliceIndex(b, hi)
    IN  IF l >= h THEN <<>> ELSE SubSeq(b, l + 1, h)

Min(a, b) == IF a <= b THEN a ELSE b

\* b1 ^ b2 on bytes, bit by bit.
RECURSIVE XorByte(_, _)
XorByte(x, y) ==
    IF x = 0 THEN y
    ELSE IF y = 0 THEN x
    ELSE 2 * XorByte(x \div 2, y \div 2) + ((x + y) % 2)

\* bytes(b1 ^ b2 for b1, b2 in zip(s, t)): the shorter argument decides the length.
XorZip(s, t) == [i \in 1..Min(Len(s), Len(t)) |-> XorByte(s[i], t[i])]

\* any(t)
AnyNonZero(t) == \E i \in 1..Len(t) : t[i] # 0

\* All byte strings over the alphabet A of length at most n.
BytesUpTo(A, n) == UNION {[1..k -> A] : k \in 0..n}


VARIABLES
    \* SM3 object: _value, _msg_len, _msg_block_buffer, _words_buffer1/2.
    sm3,
    \* Everything passed to update() so far, and what the last call returned.
    sm3_fed, sm3_out, sm3_op,
    \* How many times value() was called, counted up to MaxValueCalls.
    sm3_nvalue,
    \* SM2 object: its secret key, user id and public key.
    sm2_sk, sm2_uid, sm2_pk,
    \* The call in progress: its message or plaintext, where it stands, the
    \* last draw that _randint returned, and what the calls returned.
    sm2_arg, sm2_pc, sm2_k, sm2_sig, sm2_vpk, sm2_verdict,
    sm2_cipher, sm2_sent, sm2_dec,
    \* Two SM2 objects A and B in a key exchange: their secret keys, the
    \* point compression mode, where each stands, what begin_key_exchange
    \* returned to each (R as bytes, t) and what end_key_exchange did.
    kx_skA, kx_skB, kx_mode, kx_pcA, kx_pcB, kx_RA, kx_tA, kx_RB, kx_tB,
    kx_keyA, kx_keyB,
    \* A working-mode object; in the stream runs, the phase (encrypting or
    \* decrypting), the plaintext and ciphertext so far, how much of the
    \* ciphertext went back into decrypt and what came out.
    bc, bc_phase, bc_plain, bc_cipher, bc_nfed, bc_dec,
    \* In the reset runs: an object built afresh at the last reset() and
    \* given the same calls since, what the last call did on each, the
    \* calls since the last reset(), the resets, whether a call has raised.
    bc_twin, bc_out, bc_twin_out, bc_ncalls, bc_nreset, bc_raised,
    \* A point, the mode it is written in, its bytes, what reading them
    \* back gave, and the last step made.
    pc_P, pc_mode, pc_bytes, pc_back, pc_op,
    \* A call of a function that keeps no state: its arguments, what it
    \* returned or raised, and whether it has been made.
    fn_in, fn_out, fn_op,
    \* The ecdlp that SM2Core was built on; an SM2 object (_sk, _uid, _pk,
    \* _pc_mode); the last call made on it with its arguments, and what the
    \* call returned or raised.
    core_ecdlp, fac, fac_call, fac_out,
    \* An SM9 run: the master key, ids and arguments it was started with,
    \* where it stands, what the first calls returned (user keys, the
    \* ciphertext, each side's begin_key_exchange) and what the last calls
    \* returned or raised.
    s9_in, s9_pc, s9_mid, s9_out

varsSM3 == <<sm3, sm3_fed, sm3_out, sm3_op, sm3_nvalue>>
varsSM2 == <<sm2_sk, sm2_uid, sm2_pk, sm2_arg, sm2_pc, sm2_k, sm2_sig, sm2_vpk,
             sm2_verdict, sm2_cipher, sm2_sent, sm2_dec>>

varsKX == <<kx_skA, kx_skB, kx_mode, kx_pcA, kx_pcB, kx_RA, kx_tA, kx_RB, kx_tB,
           kx_keyA, kx_keyB>>

varsBC == <<bc, bc_phase, bc_plain, bc_cipher, bc_nfed, bc_dec,
           bc_twin, bc_out, bc_twin_out, bc_ncalls, bc_nreset, bc_raised>>

varsPC == <<pc_P, pc_mode, pc_bytes, pc_back, pc_op>>

varsFn == <<fn_in, fn_out, fn_op>>

varsFac == <<core_ecdlp, fac, fac_call, fac_out>>

varsS9 == <<s9_in, s9_pc, s9_mid, s9_out>>

vars == <<varsSM3, varsSM2, varsKX, varsBC, varsPC, varsFn, varsFac, varsS9>>

\* What the steps of one object leave alone: the other objects.
othersSM3 == <<varsSM2, varsKX, varsBC, varsPC, varsFn, varsFac, varsS9>>
othersSM2 == <<varsSM3, varsKX, varsBC, varsPC, varsFn, varsFac, varsS9>>
othersKX == <<varsSM3, varsSM2, varsBC, varsPC, varsFn, varsFac, varsS9>>
othersBC == <<varsSM3, varsSM2, varsKX, varsPC, varsFn, varsFac, varsS9>>
othersPC == <<varsSM3, varsSM2, varsKX, varsBC, varsFn, varsFac, varsS9>>
othersFn == <<varsSM3, varsSM2, varsKX, varsBC, varsPC, varsFac, varsS9>>
othersFac == <<varsSM3, varsSM2, varsKX, varsBC, varsPC, varsFn, varsS9>>
othersS9 == <<varsSM3, varsSM2, varsKX, varsBC, varsPC, varsFn, varsFac>>

(***************************************************************************)
(* SM3 (sm3.py).  The message schedule and the 64 rounds are not unfolded: *)
(* the chaining value V is represented by the list of the blocks it has    *)
(* absorbed since the IV, so two chaining values are equal exactly when    *)
(* the same blocks were compressed in the same order.  The digest bytes    *)
(* are computed from that list by a small mixing function.                 *)
(***************************************************************************)
\* SM3.max_msg_length(): the largest length whose bit count fits the field.
max_msg_length == (Pow256(LenFieldLen) - 1) \div 8

hash_length == HashLen

\* _expand(B, W1, W2): fills both word buffers from the block B alone.
expand(B) == B

\* _compress(W1, W2, V): V absorbs the expanded block.
compress(W, V) == Append(V, W)

\* SM3.__init__
SM3_init == [value |-> <<>>, msg_len |-> 0, buffer |-> <<>>, words |-> <<>>]

\* The loop of update stopping one block early when data ends on a block
\* boundary.
RECURSIVE UpdateLoop_short(_, _, _, _)
UpdateLoop_short(data, pos, V, W) ==
    IF pos + BlockLen < Len(data)
    THEN LET W1 == expand(Slice(data, pos, pos + BlockLen))
         IN  UpdateLoop_short(data, pos + BlockLen, compress(W1, V), W1)
    ELSE [pos |-> pos, V |-> V, W |-> W]

\* The while loop of update: whole blocks taken straight from data.
RECURSIVE UpdateLoop(_, _, _, _)
UpdateLoop(data, pos, V, W) ==
    IF pos + (BlockLen - 1) < Len(data)
    THEN LET W1 == expand(Slice(data, pos, pos + BlockLen))
         IN  UpdateLoop(data, pos + BlockLen, compress(W1, V), W1)
    ELSE [pos |-> pos, V |-> V, W |-> W]

\* Whether update(data) raises DataOverflowError.
SM3_update_overflow(h, data) == h.msg_len + Len(data) > max_msg_length

\* SM3.update: the object after update(data) returned.
SM3_update(h, data) ==
    LET b_len == Len(h.buffer)
        d_len == Len(data)
    IN  IF SM3_update_overflow(h, data) THEN h
        ELSE IF b_len + d_len >= BlockLen
        THEN LET begin == BlockLen - b_len
                 W0 == expand(h.buffer \o Slice(data, 0, begin))
                 r == UpdateLoop(data, begin, compress(W0, h.value), W0)
             IN  [value |-> r.V, msg_len |-> h.msg_len + d_len,
                  buffer |-> Slice(data, r.pos, d_len), words |-> r.W]
        ELSE [h EXCEPT !.buffer = h.buffer \o data, !.msg_len = h.msg_len + d_len]

Zeros(k) == [i \in 1..k |-> 0]

\* SM3.value: the chaining value after the padding blocks, and the word
\* buffers as value() leaves them (it works on copies of B and V only).
SM3_final(h) ==
    LET b_len == Len(h.buffer)
        B1 == Append(h.buffer, 128)
        lenfield == to_bytes(h.msg_len * 8, LenFieldLen)
    IN  IF b_len < BlockLen - LenFieldLen
        THEN LET B == B1 \o Zeros((BlockLen - LenFieldLen) - (b_len + 1)) \o lenfield
             IN  [V |-> compress(expand(B), h.value), W |-> expand(B)]
        ELSE LET Ba == B1 \o Zeros(BlockLen - (b_len + 1))
                 Bb == Zeros(BlockLen - LenFieldLen) \o lenfield
             IN  [V |-> compress(expand(Bb), compress(expand(Ba), h.value)),
                  W |-> expand(Bb)]

\* The bytes of a chaining value: a fold of all absorbed bytes, cut to hash_length.
RECURSIVE MixBytes(_, _)
MixBytes(acc, b) ==
    IF Len(b) = 0 THEN acc
    ELSE MixBytes((acc * 33 + Head(b) + 1) % Pow256(hash_length), Tail(b))

RECURSIVE MixBlocks(_, _)
MixBlocks(acc, V) ==
    IF Len(V) = 0 THEN acc ELSE MixBlocks(MixBytes(acc, Head(V)), Tail(V))

ValueBytes(V) == to_bytes(MixBlocks(7, V), hash_length)

SM3_value(h) == ValueBytes(SM3_final(h).V)

\* SMCoreBase._hash_fn: a fresh object, one update, value().
hash_fn(data) == SM3_value(SM3_update(SM3_init, data))

(***************************************************************************)
(* PrimeField (primefield.py): arithmetic modulo p.                        *)
(***************************************************************************)
\* sqrt returns None when it finds no root.
None == -1

PrimeField_neg(p, x) == (0 - x) % p
PrimeField_add(p, x, y) == (x + y) % p
PrimeField_sub(p, x, y) == (x - y) % p
PrimeField_mul(p, x, y) == (x * y) % p
PrimeField_smul(p, k, x) == (k * x) % p
PrimeField_isoppo(p, x, y) == (x = 0 /\ y = 0) \/ x + y = p
PrimeField_iszero(x) == x = 0

\* The while loop of PrimeField.inv (extended Euclid on r1, r2, t1, t2).
RECURSIVE InvLoop(_, _, _, _, _)
InvLoop(p, r1, r2, t1, t2) ==
    IF r2 > 0
    THEN LET q == r1 \div r2
             r == r1 % r2
         IN  InvLoop(p, r2, r, t2, t1 - q * t2)
    ELSE t1 % p

PrimeField_inv(p, x) == InvLoop(p, p, x, 0, 1)

\* pow(x, e, p) for e >= 0.
RECURSIVE PrimeField_pow(_, _, _)
PrimeField_pow(p, x, e) ==
    IF e = 0 THEN 1 % p
    ELSE LET h == PrimeField_pow(p, x, e \div 2)
         IN  IF e % 2 = 1 THEN (((h * h) % p) * (x % p)) % p ELSE (h * h) % p

\* PrimeField.__init__: self._u as set for each residue of p modulo 8.
PrimeField_u(p) ==
    LET u == p \div 8
        r == p % 8
    IN  IF r = 3 THEN u * 2 ELSE IF r = 7 THEN u * 2 + 1 ELSE u

\* PrimeField._lucas: the loop over the binary digits of k.
RECURSIVE LucasLoop(_, _, _, _, _, _, _)
LucasLoop(p, X, delta, inv2, bits, U, V) ==
    IF Len(bits) = 0 THEN <<U, V>>
    ELSE LET U1 == (U * V) % p
             V1 == ((V * V + delta * U * U) * inv2) % p
             U2 == IF Head(bits) = 1 THEN ((X * U1 + V1) * inv2) % p ELSE U1
             V2 == IF Head(bits) = 1 THEN ((X * V1 + delta * U1) * inv2) % p ELSE V1
         IN  LucasLoop(p, X, delta, inv2, Tail(bits), U2, V2)

PrimeField_lucas(p, X, Y, k) ==
    LucasLoop(p, X, (X * X - 4 * Y) % p, PrimeField_inv(p, 2), BinDigits(k), 0, 2)

PrimeField_sqrt_4u3(p, x) ==
    LET y == PrimeField_pow(p, x, PrimeField_u(p) + 1)
    IN  IF (y * y) % p = x THEN y ELSE None

PrimeField_sqrt_8u5(p, x) ==
    LET u == PrimeField_u(p)
        z == PrimeField_pow(p, x, 2 * u + 1)
    IN  IF z = 1 THEN PrimeField_pow(p, x, u + 1)
        ELSE IF z = p - 1 THEN (2 * x * PrimeField_pow(p, 4 * x, u)) % p
        ELSE None

\* The for loop of _sqrt_8u1 over X = 1 .. p - 1.
RECURSIVE Sqrt8u1Loop(_, _, _)
Sqrt8u1Loop(p, Y, X) ==
    IF X >= p THEN None
    ELSE LET UV == PrimeField_lucas(p, X, Y, 4 * PrimeField_u(p) + 1)
             U == UV[1]
             V == UV[2]
         IN  IF (V * V - 4 * Y) % p = 0 THEN (V * PrimeField_inv(p, 2)) % p
             ELSE IF U # 1 \/ U # p - 1 THEN None
             ELSE Sqrt8u1Loop(p, Y, X + 1)

PrimeField_sqrt_8u1(p, x) == Sqrt8u1Loop(p, x, 1)

\* self.sqrt as bound by PrimeField.__init__ (p odd).
PrimeField_sqrt(p, x) ==
    IF p % 8 = 1 THEN PrimeField_sqrt_8u1(p, x)
    ELSE IF p % 8 = 5 THEN PrimeField_sqrt_8u5(p, x)
    ELSE PrimeField_sqrt_4u3(p, x)

\* self.e_length
PrimeField_e_length(p) == (bit_length(p) + 7) \div 8

PrimeField_etob(p, e) == to_bytes(e, PrimeField_e_length(p))
PrimeField_btoe(p, b) == from_bytes(b)

(***************************************************************************)
(* EllipticCurve over Fp (ellipticcurve.py).  ec is [p, a, b].             *)
(***************************************************************************)
\* EllipticCurve.INF is (inf, inf) in the source: a pair that is no pair of
\* field elements.
INF == <<-1, -1>>

\* The value that stands for UnknownError raised inside add.
EcUnknownError == <<-2, -2>>

EllipticCurve_get_y_sqr(ec, x) ==
    PrimeField_add(ec.p, PrimeField_pow(ec.p, x, 3),
                   PrimeField_add(ec.p, PrimeField_mul(ec.p, ec.a, x), ec.b))

EllipticCurve_get_y(ec, x) == PrimeField_sqrt(ec.p, EllipticCurve_get_y_sqr(ec, x))

EllipticCurve_isvalid(ec, P) ==
    PrimeField_mul(ec.p, P[2], P[2]) = EllipticCurve_get_y_sqr(ec, P[1])

\* neg(INF): fp.neg(inf) is (-inf) % p, which is nan; (inf, nan) is
\* neither INF nor a pair of field elements.
InfNaN == <<-1, -3>>

EllipticCurve_neg(ec, P) ==
    IF P = INF THEN InfNaN ELSE <<P[1], PrimeField_neg(ec.p, P[2])>>

EllipticCurve_add(ec, P1, P2) ==
    LET p == ec.p
        x1 == P1[1]
        y1 == P1[2]
        x2 == P2[1]
        y2 == P2[2]
        dbl == PrimeField_mul(p,
                   PrimeField_add(p, ec.a, PrimeField_smul(p, 3, PrimeField_mul(p, x1, x1))),
                   PrimeField_inv(p, PrimeField_smul(p, 2, y1)))
        chord == PrimeField_mul(p, PrimeField_sub(p, y2, y1),
                                PrimeField_inv(p, PrimeField_sub(p, x2, x1)))
        lam == IF x1 = x2 THEN dbl ELSE chord
        x3 == PrimeField_sub(p, PrimeField_mul(p, lam, lam), PrimeField_add(p, x1, x2))
        y3 == PrimeField_sub(p, PrimeField_mul(p, lam, PrimeField_sub(p, x1, x3)), y1)
    IN  IF P1 = EcUnknownError \/ P2 = EcUnknownError THEN EcUnknownError
        ELSE IF P1 = INF THEN P2
        ELSE IF P2 = INF THEN P1
        ELSE IF x1 = x2 /\ PrimeField_isoppo(p, y1, y2) THEN INF
        ELSE IF x1 = x2 /\ y1 # y2 THEN EcUnknownError
        ELSE <<x3, y3>>

EllipticCurve_sub(ec, P1, P2) == EllipticCurve_add(ec, P1, EllipticCurve_neg(ec, P2))

\* The for loop of mul over f"{k:b}"[1:].
RECURSIVE MulLoop(_, _, _, _)
MulLoop(ec, bits, P, Q) ==
    IF Len(bits) = 0 THEN Q
    ELSE LET Q2 == EllipticCurve_add(ec, Q, Q)
             Q3 == IF Head(bits) = 1 THEN EllipticCurve_add(ec, Q2, P) ELSE Q2
         IN  MulLoop(ec, Tail(bits), P, Q3)

\* mul looping over every binary digit of k, the leading one included.
EllipticCurve_mul_every_digit(ec, k, P) == MulLoop(ec, BinDigits(k), P, P)

EllipticCurve_mul(ec, k, P) == MulLoop(ec, Tail(BinDigits(k)), P, P)

(***************************************************************************)
(* ECDLP: the curve, the base point G, its order n and the cofactor h.     *)
(* sm2.py builds it from sm2p256v1 (p = 7 mod 8, a = p - 3, n prime, n < p,*)
(* h = 1); the model keeps these relations on a curve with 17 points.      *)
(***************************************************************************)
sm2p17 == [p |-> 23, a |-> 20, b |-> 15, G |-> <<1, 6>>, n |-> 17, h |-> 1]

\* The same relations on a curve whose p and n need two bytes.
sm2p271 == [p |-> 283, a |-> 280, b |-> 1, G |-> <<0, 1>>, n |-> 271, h |-> 1]

\* self.ecdlp of SM2Core
ecdlp == core_ecdlp

ECDLP_ec == [p |-> ecdlp.p, a |-> ecdlp.a, b |-> ecdlp.b]

ECDLP_kG(k) == EllipticCurve_mul(ECDLP_ec, k, ecdlp.G)

(***************************************************************************)
(* core.py: the one-module EllipticCurve and ECDLP that no other module    *)
(* imports.  INF is (-1, -1) there too; a point is infinite when a         *)
(* coordinate is negative.                                                 *)
(***************************************************************************)
core_isinf(P) == P[1] < 0 \/ P[2] < 0

core_add(ec, P1, P2) ==
    LET p == ec.p
        x1 == P1[1]
        y1 == P1[2]
        x2 == P2[1]
        y2 == P2[2]
        lam == IF x1 = x2
               THEN (3 * x1 * x1 + ec.a) * PrimeField_inv(p, 2 * y1)
               ELSE IF x2 > x1 THEN (y2 - y1) * PrimeField_inv(p, x2 - x1)
               ELSE (y1 - y2) * PrimeField_inv(p, x1 - x2)
        x3 == (lam * lam - x1 - x2) % p
        y3 == (lam * (x1 - x3) - y1) % p
    IN  IF P1 = EcUnknownError \/ P2 = EcUnknownError THEN EcUnknownError
        ELSE IF core_isinf(P1) THEN P2
        ELSE IF core_isinf(P2) THEN P1
        ELSE IF x1 = x2 /\ y1 + y2 = p THEN INF
        ELSE IF x1 = x2 /\ y1 # y2 THEN EcUnknownError
        ELSE <<x3, y3>>

\* The for loop of core.py's mul over all of f"{k:b}", from (-1, -1).
RECURSIVE CoreMulLoop(_, _, _, _)
CoreMulLoop(ec, bits, P, Q) ==
    IF Len(bits) = 0 THEN Q
    ELSE LET Q2 == core_add(ec, Q, Q)
             Q3 == IF Head(bits) = 1 THEN core_add(ec, Q2, P) ELSE Q2
         IN  CoreMulLoop(ec, Tail(bits), P, Q3)

core_mul(ec, k, P) == CoreMulLoop(ec, BinDigits(k), P, INF)

core_kG(k) == core_mul(ECDLP_ec, k, ecdlp.G)

\* ecdlp.fp.etob and btoe
etob(e) == PrimeField_etob(ecdlp.p, e)
btoe(b) == PrimeField_btoe(ecdlp.p, b)

(***************************************************************************)
(* SMCoreBase (base.py).                                                   *)
(***************************************************************************)
\* The hash calls of _key_derivation_fn for ct = from .. to.
RECURSIVE KdfBlocks(_, _, _)
KdfBlocks(Z, from, to) ==
    IF from > to THEN <<>>
    ELSE hash_fn(Z \o to_bytes(from, 4)) \o KdfBlocks(Z, from + 1, to)

\* _key_derivation_fn raises DataOverflowError when it would need a counter
\* above MaxCt.
key_derivation_fn_overflow(klen) ==
    LET v == hash_length
        count == klen \div v
        tail == klen % v
    IN  count + (IF tail > 0 THEN 1 ELSE 0) > MaxCt

\* _key_derivation_fn with the counter starting at 0.
key_derivation_fn_from_0(Z, klen) ==
    LET v == hash_length
        count == klen \div v
        tail == klen % v
    IN  KdfBlocks(Z, 0, count - 1)
        \o (IF tail > 0 THEN Slice(hash_fn(Z \o to_bytes(count, 4)), 0, tail) ELSE <<>>)

\* _key_derivation_fn(Z, klen) when it does not raise.
key_derivation_fn(Z, klen) ==
    LET v == hash_length
        count == klen \div v
        tail == klen % v
    IN  KdfBlocks(Z, 1, count)
        \o (IF tail > 0 THEN Slice(hash_fn(Z \o to_bytes(count + 1, 4)), 0, tail) ELSE <<>>)

\* _randint(a, b): the values rnd_fn(b.bit_length()) can return.
RandBits(b) == 0..(Pow2(bit_length(b)) - 1)

\* _randint's test on one draw.
randint_accepts(a, b, n) == ~(n < a \/ n > b)

(***************************************************************************)
(* point_to_bytes / bytes_to_point (sm2.py).                               *)
(***************************************************************************)
PC_MODE == {"RAW", "COMPRESS", "MIXED"}

point_to_bytes(P, mode) ==
    IF P = INF THEN <<0>>
    ELSE LET x == P[1]
             y == P[2]
         IN  IF mode = "RAW" THEN <<4>> \o etob(x) \o etob(y)
             ELSE IF mode = "COMPRESS"
             THEN (IF y % 2 = 1 THEN <<3>> \o etob(x) ELSE <<2>> \o etob(x))
             ELSE (IF y % 2 = 1 THEN <<7>> \o etob(x) \o etob(y)
                   ELSE <<6>> \o etob(x) \o etob(y))

\* The results that stand for the exceptions of bytes_to_point.
PointNotOnCurveError == <<-3, -3>>
InvalidPCError == <<-4, -4>>

\* bytes_to_point that returns the root get_y found, whatever the prefix.
bytes_to_point_first_root(b) ==
    LET mode == b[1]
        e_length == PrimeField_e_length(ecdlp.p)
        point == Slice(b, 1, Len(b))
        x == btoe(Slice(point, 0, e_length))
        y == EllipticCurve_get_y(ECDLP_ec, x)
    IN  IF mode = 0 THEN INF
        ELSE IF mode = 4 \/ mode = 6 \/ mode = 7
        THEN <<x, btoe(Slice(point, e_length, Len(point)))>>
        ELSE IF mode = 2 \/ mode = 3
        THEN (IF y = None THEN PointNotOnCurveError ELSE <<x, y>>)
        ELSE InvalidPCError

bytes_to_point(b) ==
    LET mode == b[1]
        e_length == PrimeField_e_length(ecdlp.p)
        point == Slice(b, 1, Len(b))
        x == btoe(Slice(point, 0, e_length))
        y == EllipticCurve_get_y(ECDLP_ec, x)
        ylsb == y % 2
    IN  IF mode = 0 THEN INF
        ELSE IF mode = 4 \/ mode = 6 \/ mode = 7
        THEN <<x, btoe(Slice(point, e_length, Len(point)))>>
        ELSE IF mode = 2 \/ mode = 3
        THEN (IF y = None THEN PointNotOnCurveError
              ELSE IF (mode = 2 /\ ylsb = 1) \/ (mode = 3 /\ ylsb # 1)
              THEN <<x, PrimeField_neg(ecdlp.p, y)>>
              ELSE <<x, y>>)
        ELSE InvalidPCError

(***************************************************************************)
(* SM2Core (sm2.py).                                                       *)
(***************************************************************************)
\* math.ceil(math.log2(n))
CeilLog2(n) == bit_length(n - 1)

\* SM2Core.__init__: w and 2^w.
SM2Core_w == ((CeilLog2(ecdlp.n) + 1) \div 2) - 1
SM2Core_2w == Pow2(SM2Core_w)

SM2Core_generate_pk(sk) == ECDLP_kG(sk)

\* entity_info raises DataOverflowError when ENTL.bit_length() >= EntlBits.
entity_info_overflow(uid) == bit_length(Len(uid) * 8) >= EntlBits

\* entity_info(uid, pk) for a pk with two field elements.
SM2Core_entity_info(uid, pk) ==
    hash_fn(to_bytes(Len(uid) * 8, 2) \o uid \o etob(ecdlp.a) \o etob(ecdlp.b)
            \o etob(ecdlp.G[1]) \o etob(ecdlp.G[2]) \o etob(pk[1]) \o etob(pk[2]))

\* e = bytes_to_int(H(Z || message))
SM2Core_e(message, uid, pk) ==
    bytes_to_int(hash_fn(SM2Core_entity_info(uid, pk) \o message))

\* sign with s = k - r.sk, the factor (1 + sk)^-1 left out.
SM2Core_sign_pass_no_inv(message, sk, uid, pk, k) ==
    LET n == ecdlp.n
        e == SM2Core_e(message, uid, pk)
        x == ECDLP_kG(k)[1]
        r == PrimeField_add(n, e, x)
        s == PrimeField_sub(n, k, PrimeField_mul(n, r, sk))
    IN  IF PrimeField_iszero(r) \/ PrimeField_iszero(PrimeField_add(n, r, k))
        THEN [ok |-> FALSE, r |-> r, s |-> 0]
        ELSE IF PrimeField_iszero(s) THEN [ok |-> FALSE, r |-> r, s |-> s]
        ELSE [ok |-> TRUE, r |-> r, s |-> s]

\* One pass of sign's while loop for the draw k that _randint returned:
\* ok is FALSE when the pass ends in `continue`.
SM2Core_sign_pass(message, sk, uid, pk, k) ==
    LET n == ecdlp.n
        e == SM2Core_e(message, uid, pk)
        x == ECDLP_kG(k)[1]
        r == PrimeField_add(n, e, x)
        s == PrimeField_mul(n, PrimeField_sub(n, k, PrimeField_mul(n, r, sk)),
                            PrimeField_inv(n, 1 + sk))
    IN  IF PrimeField_iszero(r) \/ PrimeField_iszero(PrimeField_add(n, r, k))
        THEN [ok |-> FALSE, r |-> r, s |-> 0]
        ELSE IF PrimeField_iszero(s) THEN [ok |-> FALSE, r |-> r, s |-> s]
        ELSE [ok |-> TRUE, r |-> r, s |-> s]

\* verify without its test of t = r + s against zero.
SM2Core_verify_no_t(message, r, s, uid, pk) ==
    LET n == ecdlp.n
        t == PrimeField_add(n, r, s)
        e == SM2Core_e(message, uid, pk)
        S == EllipticCurve_add(ECDLP_ec, ECDLP_kG(s), EllipticCurve_mul(ECDLP_ec, t, pk))
    IN  IF r < 1 \/ r > n - 1 THEN "False"
        ELSE IF s < 1 \/ s > n - 1 THEN "False"
        ELSE IF entity_info_overflow(uid) THEN "DataOverflowError"
        ELSE IF pk = INF THEN "AttributeError"
        ELSE IF S = EcUnknownError THEN "UnknownError"
        ELSE IF S = INF THEN "False"
        ELSE IF PrimeField_add(n, e, S[1]) # r THEN "False"
        ELSE "True"

\* SM2Core.verify: "True", "False", or the name of what it raises.  A pk
\* that is INF reaches etob with a float, which has no to_bytes; the sum
\* s.G + t.pk being INF makes (e + inf) % n a nan, which differs from r.
SM2Core_verify(message, r, s, uid, pk) ==
    LET n == ecdlp.n
        t == PrimeField_add(n, r, s)
        e == SM2Core_e(message, uid, pk)
        S == EllipticCurve_add(ECDLP_ec, ECDLP_kG(s), EllipticCurve_mul(ECDLP_ec, t, pk))
    IN  IF r < 1 \/ r > n - 1 THEN "False"
        ELSE IF s < 1 \/ s > n - 1 THEN "False"
        ELSE IF PrimeField_iszero(t) THEN "False"
        ELSE IF entity_info_overflow(uid) THEN "DataOverflowError"
        ELSE IF pk = INF THEN "AttributeError"
        ELSE IF S = EcUnknownError THEN "UnknownError"
        ELSE IF S = INF THEN "False"
        ELSE IF PrimeField_add(n, e, S[1]) # r THEN "False"
        ELSE "True"

\* One pass of encrypt's while loop for the draw k that _randint returned.
SM2Core_encrypt_pass(plain, pk, k) ==
    LET C1 == ECDLP_kG(k)
        kP == EllipticCurve_mul(ECDLP_ec, k, pk)
        x2 == etob(kP[1])
        y2 == etob(kP[2])
        t == key_derivation_fn(x2 \o y2, Len(plain))
    IN  IF EllipticCurve_mul(ECDLP_ec, ecdlp.h, pk) = INF
        THEN [status |-> "InfinitePointError", C1 |-> C1, C2 |-> <<>>, C3 |-> <<>>]
        ELSE IF ~AnyNonZero(t)
        THEN [status |-> "continue", C1 |-> C1, C2 |-> <<>>, C3 |-> <<>>]
        ELSE [status |-> "return", C1 |-> C1, C2 |-> XorZip(plain, t),
              C3 |-> hash_fn(x2 \o plain \o y2)]

\* decrypt without its comparison of C3 with the recomputed hash.
SM2Core_decrypt_no_check(C1, C2, C3, sk) ==
    LET S == EllipticCurve_mul(ECDLP_ec, sk, C1)
        x2 == etob(S[1])
        y2 == etob(S[2])
        t == key_derivation_fn(x2 \o y2, Len(C2))
        M == XorZip(C2, t)
    IN  IF C1 = INF THEN [status |-> "TypeError", M |-> <<>>]
        ELSE IF ~EllipticCurve_isvalid(ECDLP_ec, C1)
        THEN [status |-> "PointNotOnCurveError", M |-> <<>>]
        ELSE IF EllipticCurve_mul(ECDLP_ec, ecdlp.h, C1) = INF
        THEN [status |-> "InfinitePointError", M |-> <<>>]
        ELSE IF ~AnyNonZero(t) THEN [status |-> "UnknownError", M |-> <<>>]
        ELSE [status |-> "return", M |-> M]

\* SM2Core.decrypt.  isvalid(INF) calls pow(inf, 3, p): TypeError.
SM2Core_decrypt(C1, C2, C3, sk) ==
    LET S == EllipticCurve_mul(ECDLP_ec, sk, C1)
        x2 == etob(S[1])
        y2 == etob(S[2])
        t == key_derivation_fn(x2 \o y2, Len(C2))
        M == XorZip(C2, t)
    IN  IF C1 = INF THEN [status |-> "TypeError", M |-> <<>>]
        ELSE IF ~EllipticCurve_isvalid(ECDLP_ec, C1)
        THEN [status |-> "PointNotOnCurveError", M |-> <<>>]
        ELSE IF EllipticCurve_mul(ECDLP_ec, ecdlp.h, C1) = INF
        THEN [status |-> "InfinitePointError", M |-> <<>>]
        ELSE IF ~AnyNonZero(t) THEN [status |-> "UnknownError", M |-> <<>>]
        ELSE IF hash_fn(x2 \o M \o y2) # C3 THEN [status |-> "CheckFailedError", M |-> <<>>]
        ELSE [status |-> "return", M |-> M]

SM2Core_x_bar(x) == SM2Core_2w + (x % SM2Core_2w)

\* begin_key_exchange for the draw r that _randint returned: (R, t).
SM2Core_begin_key_exchange(sk, r) ==
    LET R == ECDLP_kG(r)
    IN  [R |-> R,
         t |-> PrimeField_add(ecdlp.n, sk,
                              PrimeField_mul(ecdlp.n, SM2Core_x_bar(R[1]), r))]

\* get_secret_point: the point S, or the value standing for what it raises.
InfinitePointError == <<-5, -5>>

\* get_secret_point with R taken as it is, not multiplied by x_bar.
SM2Core_get_secret_point_no_x_bar(t, R, pk) ==
    LET S == EllipticCurve_mul(ECDLP_ec, ecdlp.h * t, EllipticCurve_add(ECDLP_ec, pk, R))
    IN  IF ~EllipticCurve_isvalid(ECDLP_ec, R) THEN PointNotOnCurveError
        ELSE IF S = INF THEN InfinitePointError
        ELSE S

SM2Core_get_secret_point(t, R, pk) ==
    LET S == EllipticCurve_mul(ECDLP_ec, ecdlp.h * t,
                 EllipticCurve_add(ECDLP_ec, pk,
                     EllipticCurve_mul(ECDLP_ec, SM2Core_x_bar(R[1]), R)))
    IN  IF ~EllipticCurve_isvalid(ECDLP_ec, R) THEN PointNotOnCurveError
        ELSE IF S = INF THEN InfinitePointError
        ELSE S

SM2Core_generate_skey(klen, S, uid_init, pk_init, uid_resp, pk_resp) ==
    key_derivation_fn(etob(S[1]) \o etob(S[2])
                      \o SM2Core_entity_info(uid_init, pk_init)
                      \o SM2Core_entity_info(uid_resp, pk_resp), klen)

(***************************************************************************)
(* class SM2 (sm2.py).  An argument or field that may be None is a         *)
(* sequence of at most one element: <<>> for None, <<v>> for the value v.  *)
(***************************************************************************)
Absent == <<>>
Some(v) == <<v>>

\* Python's truth value of an optional int, of optional bytes, of an
\* optional point: None, 0 and b"" are false, every tuple is true.
TruthyInt(o) == o # Absent /\ o[1] # 0
TruthyBytes(o) == o # Absent /\ Len(o[1]) > 0
TruthyPoint(o) == o # Absent

\* utils.int_to_bytes: the fewest bytes that hold i.
int_to_bytes(i) == to_bytes(i, (bit_length(i) + 7) \div 8)

\* SM2.__init__ with _get_pk, for a pk argument that names a point.
SM2_new(sk, uid, pk, mode) ==
    LET self_sk == IF TruthyBytes(sk) THEN Some(bytes_to_int(sk[1])) ELSE Absent
    IN  [sk |-> self_sk,
         uid |-> uid,
         pk |-> IF TruthyBytes(pk) THEN Some(bytes_to_point(pk[1]))
                ELSE IF TruthyInt(self_sk) THEN Some(SM2Core_generate_pk(self_sk[1]))
                ELSE Absent,
         pc_mode |-> mode]

can_sign(o) == TruthyInt(o.sk) /\ TruthyBytes(o.uid)
can_verify(o) == TruthyPoint(o.pk) /\ TruthyBytes(o.uid)
can_encrypt(o) == TruthyPoint(o.pk)
can_decrypt(o) == TruthyInt(o.sk)
can_exchange_key(o) == TruthyInt(o.sk) /\ TruthyBytes(o.uid)

RequireArgumentError == [status |-> "RequireArgumentError", out |-> <<>>]

\* SM2.generate_keypair for the draw sk that _randint(1, n - 2) returned.
SM2_generate_keypair(o, sk) ==
    [status |-> "return",
     out |-> <<int_to_bytes(sk), point_to_bytes(SM2Core_generate_pk(sk), o.pc_mode)>>]

\* SM2.sign, k the draw of the loop pass that returns.
SM2_sign_return(pass) ==
    IF ~pass.ok THEN [status |-> "continue", out |-> <<>>]
    ELSE [status |-> "return", out |-> <<int_to_bytes(pass.r), int_to_bytes(pass.s)>>]

SM2_sign(o, message, k) ==
    IF ~can_sign(o) THEN RequireArgumentError
    ELSE SM2_sign_return(SM2Core_sign_pass(message, o.sk[1], o.uid[1], o.pk[1], k))

SM2_verify_return(v) ==
    IF v \in {"True", "False"} THEN [status |-> "return", out |-> v]
    ELSE [status |-> v, out |-> <<>>]

SM2_verify(o, message, r, s) ==
    IF ~can_verify(o) THEN RequireArgumentError
    ELSE SM2_verify_return(SM2Core_verify(message, bytes_to_int(r), bytes_to_int(s),
                                          o.uid[1], o.pk[1]))

\* SM2.encrypt, k the draw of the loop pass that returns.
SM2_encrypt_return(c, mode) ==
    IF c.status # "return" THEN [status |-> c.status, out |-> <<>>]
    ELSE [status |-> "return", out |-> point_to_bytes(c.C1, mode) \o c.C3 \o c.C2]

SM2_encrypt(o, plain, k) ==
    IF ~can_encrypt(o) THEN RequireArgumentError
    ELSE SM2_encrypt_return(SM2Core_encrypt_pass(plain, o.pk[1], k), o.pc_mode)

\* SM2.decrypt of a cipher that is not empty.
SM2_decrypt_return(d) == [status |-> d.status, out |-> d.M]

\* The rest of SM2.decrypt once the cipher is cut into C1, C3 and C2.
SM2_decrypt_parts(o, mode, C1, C3, C2) ==
    IF ~can_decrypt(o) THEN RequireArgumentError
    ELSE IF mode \notin {2, 3, 4, 6, 7}
    THEN [status |-> "InvalidPCError", out |-> <<>>]
    ELSE IF C1 = PointNotOnCurveError
    THEN [status |-> "PointNotOnCurveError", out |-> <<>>]
    ELSE SM2_decrypt_return(SM2Core_decrypt(C1, C2, C3, o.sk[1]))

SM2_decrypt(o, cipher) ==
    LET length == PrimeField_e_length(ecdlp.p)
        mode == cipher[1]
        c1_length == IF mode \in {4, 6, 7} THEN 1 + length * 2 ELSE 1 + length
    IN  SM2_decrypt_parts(o, mode, bytes_to_point(Slice(cipher, 0, c1_length)),
                          Slice(cipher, c1_length, c1_length + hash_length),
                          Slice(cipher, c1_length + hash_length, Len(cipher)))

\* SM2.begin_key_exchange for the draw r that _randint returned.
SM2_begin_key_exchange(o, r) ==
    IF ~can_exchange_key(o) THEN RequireArgumentError
    ELSE LET x == SM2Core_begin_key_exchange(o.sk[1], r)
         IN  [status |-> "return", out |-> <<point_to_bytes(x.R, o.pc_mode), x.t>>]

\* SM2.end_key_exchange of the object with (self_uid, self_pk): the key, or
\* the name of what it raises.  bytes_to_point can give INF (from b"\x00"),
\* on which isvalid raises TypeError.
KEYXCHG_MODE == {"INITIATOR", "RESPONDER"}

\* The rest of end_key_exchange once R and pk are parsed and S is what
\* get_secret_point gave.
SM2_end_key_exchange_skey(klen, R, pk, S, uid, mode, self_uid, self_pk) ==
    IF R = PointNotOnCurveError \/ pk = PointNotOnCurveError
    THEN [status |-> "PointNotOnCurveError", key |-> <<>>]
    ELSE IF R = InvalidPCError \/ pk = InvalidPCError
    THEN [status |-> "InvalidPCError", key |-> <<>>]
    ELSE IF R = INF THEN [status |-> "TypeError", key |-> <<>>]
    ELSE IF S = PointNotOnCurveError
    THEN [status |-> "PointNotOnCurveError", key |-> <<>>]
    ELSE IF S = InfinitePointError
    THEN [status |-> "InfinitePointError", key |-> <<>>]
    ELSE IF S = EcUnknownError THEN [status |-> "UnknownError", key |-> <<>>]
    ELSE IF mode = "INITIATOR"
    THEN [status |-> "return",
          key |-> SM2Core_generate_skey(klen, S, self_uid, self_pk, uid, pk)]
    ELSE IF mode = "RESPONDER"
    THEN [status |-> "return",
          key |-> SM2Core_generate_skey(klen, S, uid, pk, self_uid, self_pk)]
    ELSE [status |-> "TypeError", key |-> <<>>]

SM2_end_key_exchange_point(klen, t, R, pk, uid, mode, self_uid, self_pk) ==
    SM2_end_key_exchange_skey(klen, R, pk, SM2Core_get_secret_point(t, R, pk),
                              uid, mode, self_uid, self_pk)

SM2_end_key_exchange(klen, t, Rb, uid, pkb, mode, self_uid, self_pk) ==
    SM2_end_key_exchange_point(klen, t, bytes_to_point(Rb), bytes_to_point(pkb),
                               uid, mode, self_uid, self_pk)

\* SM2.end_key_exchange on the object o.  It tests no can_* property; when
\* o has no uid or no pk, generate_skey passes None to entity_info, where
\* len(None) or the unpacking of None raises TypeError.
SM2_end_key_exchange_none(x) ==
    IF x.status # "return" THEN [status |-> x.status, out |-> <<>>]
    ELSE [status |-> "TypeError", out |-> <<>>]

SM2_end_key_exchange_return(x) == [status |-> x.status, out |-> x.key]

SM2_end_key_exchange_on(o, klen, t, Rb, uid, pkb, mode) ==
    IF o.uid = Absent \/ o.pk = Absent
    THEN SM2_end_key_exchange_none(
             SM2_end_key_exchange(klen, t, Rb, uid, pkb, mode, <<>>, ecdlp.G))
    ELSE SM2_end_key_exchange_return(
             SM2_end_key_exchange(klen, t, Rb, uid, pkb, mode, o.uid[1], o.pk[1]))

(***************************************************************************)
(* PrimeField2 (primefield.py): Fp2 = Fp[u] / (u^2 - ALPHA).  An element   *)
(* is the pair (X1, X0) of the source, X1 the coefficient of u; X[2] here  *)
(* is X[1] of the source, the lower component.                             *)
(***************************************************************************)
ALPHA == -2

\* What PrimeField2.sqrt returns for None: a pair that is no element.
None2 == <<None, None>>

PrimeField2_zero == <<0, 0>>
PrimeField2_extend(x) == <<0, x>>
PrimeField2_isoppo(p, X, Y) ==
    PrimeField_isoppo(p, X[1], Y[1]) /\ PrimeField_isoppo(p, X[2], Y[2])
PrimeField2_neg(p, X) == <<PrimeField_neg(p, X[1]), PrimeField_neg(p, X[2])>>
PrimeField2_add(p, X, Y) == <<PrimeField_add(p, X[1], Y[1]), PrimeField_add(p, X[2], Y[2])>>
PrimeField2_sub(p, X, Y) == <<PrimeField_sub(p, X[1], Y[1]), PrimeField_sub(p, X[2], Y[2])>>

PrimeField2_mul(p, X, Y) ==
    LET X1 == X[1]
        X0 == X[2]
        Y1 == Y[1]
        Y0 == Y[2]
        X1mY1 == PrimeField_mul(p, X1, Y1)
        X0mY0 == PrimeField_mul(p, X0, Y0)
        X1aX0_m_Y1aY0 == PrimeField_mul(p, PrimeField_add(p, X1, X0), PrimeField_add(p, Y1, Y0))
    IN  <<PrimeField_sub(p, X1aX0_m_Y1aY0, PrimeField_add(p, X1mY1, X0mY0)),
          PrimeField_add(p, PrimeField_mul(p, ALPHA, X1mY1), X0mY0)>>

PrimeField2_inv(p, X) ==
    LET X1 == X[1]
        X0 == X[2]
        invdet == PrimeField_inv(p, PrimeField_sub(p,
                      PrimeField_mul(p, ALPHA, PrimeField_mul(p, X1, X1)),
                      PrimeField_mul(p, X0, X0)))
    IN  <<PrimeField_mul(p, X1, invdet), PrimeField_mul(p, PrimeField_neg(p, X0), invdet)>>

\* The for loop of PrimeField2.pow over the binary digits of e after the first.
RECURSIVE Pow2Loop(_, _, _, _)
Pow2Loop(p, X, bits, Y) ==
    IF Len(bits) = 0 THEN Y
    ELSE LET Y2 == PrimeField2_mul(p, Y, Y)
         IN  Pow2Loop(p, X, Tail(bits),
                      IF Head(bits) = 1 THEN PrimeField2_mul(p, Y2, X) ELSE Y2)

PrimeField2_pow(p, X, e) == Pow2Loop(p, X, Tail(BinDigits(e)), X)

\* One pass of the for loop of PrimeField2.sqrt, for w: the root it
\* returns, or None2 where it continues.
Sqrt2Pass(p, X, w) ==
    LET V == PrimeField_mul(p, PrimeField_add(p, X[2], w), PrimeField_inv(p, 2))
        y == PrimeField_sqrt(p, V)
    IN  IF y = None THEN None2
        ELSE <<PrimeField_mul(p, X[1], PrimeField_inv(p, PrimeField_mul(p, 2, y))), y>>

PrimeField2_sqrt(p, X) ==
    LET U == PrimeField_sub(p, PrimeField_mul(p, X[2], X[2]),
                            PrimeField_mul(p, ALPHA, PrimeField_mul(p, X[1], X[1])))
        w1 == PrimeField_sqrt(p, U)
        w2 == PrimeField_neg(p, w1)
    IN  IF w1 = None THEN None2
        ELSE IF Sqrt2Pass(p, X, w1) # None2 THEN Sqrt2Pass(p, X, w1)
        ELSE Sqrt2Pass(p, X, w2)

PrimeField2_e_length(p) == PrimeField_e_length(p) * 2

PrimeField2_etob(p, e) == PrimeField_etob(p, e[1]) \o PrimeField_etob(p, e[2])

\* PrimeField2.btoe: one element of Fp for each e_length bytes of b.
RECURSIVE PrimeField2_btoe(_, _)
PrimeField2_btoe(p, b) ==
    IF Len(b) = 0 THEN <<>>
    ELSE <<PrimeField_btoe(p, Slice(b, 0, PrimeField_e_length(p)))>>
         \o PrimeField2_btoe(p, Slice(b, PrimeField_e_length(p), Len(b)))

PrimeField2_one == <<0, 1>>
PrimeField2_smul(p, k, X) == <<PrimeField_smul(p, k, X[1]), PrimeField_smul(p, k, X[2])>>

(***************************************************************************)
(* PrimeField4 (primefield.py): Fp4 = Fp2[v] / (v^2 - u).  An element is   *)
(* the pair (X1, X0) of elements of Fp2.                                   *)
(***************************************************************************)
\* PrimeField4._ALPHA = (1, 0): the element u of Fp2.
PrimeField4_ALPHA == <<1, 0>>

PrimeField4_zero == <<PrimeField2_zero, PrimeField2_zero>>
PrimeField4_one == <<PrimeField2_zero, PrimeField2_one>>
PrimeField4_isoppo(p, X, Y) ==
    PrimeField2_isoppo(p, X[1], Y[1]) /\ PrimeField2_isoppo(p, X[2], Y[2])
PrimeField4_neg(p, X) == <<PrimeField2_neg(p, X[1]), PrimeField2_neg(p, X[2])>>
PrimeField4_smul(p, k, X) == <<PrimeField2_smul(p, k, X[1]), PrimeField2_smul(p, k, X[2])>>
PrimeField4_add(p, X, Y) == <<PrimeField2_add(p, X[1], Y[1]), PrimeField2_add(p, X[2], Y[2])>>
PrimeField4_sub(p, X, Y) == <<PrimeField2_sub(p, X[1], Y[1]), PrimeField2_sub(p, X[2], Y[2])>>

PrimeField4_mul(p, X, Y) ==
    LET X1 == X[1]
        X0 == X[2]
        Y1 == Y[1]
        Y0 == Y[2]
        X1mY1 == PrimeField2_mul(p, X1, Y1)
        X0mY0 == PrimeField2_mul(p, X0, Y0)
        X1aX0_m_Y1aY0 ==
            PrimeField2_mul(p, PrimeField2_add(p, X1, X0), PrimeField2_add(p, Y1, Y0))
    IN  <<PrimeField2_sub(p, X1aX0_m_Y1aY0, PrimeField2_add(p, X1mY1, X0mY0)),
          PrimeField2_add(p, PrimeField2_mul(p, PrimeField4_ALPHA, X1mY1), X0mY0)>>

PrimeField4_inv(p, X) ==
    LET X1 == X[1]
        X0 == X[2]
        invdet == PrimeField2_inv(p, PrimeField2_sub(p,
                      PrimeField2_mul(p, PrimeField4_ALPHA, PrimeField2_mul(p, X1, X1)),
                      PrimeField2_mul(p, X0, X0)))
    IN  <<PrimeField2_mul(p, X1, invdet), PrimeField2_mul(p, PrimeField2_neg(p, X0), invdet)>>

\* The for loop of PrimeField4.pow over the binary digits of e after the first.
RECURSIVE Pow4Loop(_, _, _, _)
Pow4Loop(p, X, bits, Y) ==
    IF Len(bits) = 0 THEN Y
    ELSE LET Y2 == PrimeField4_mul(p, Y, Y)
         IN  Pow4Loop(p, X, Tail(bits),
                      IF Head(bits) = 1 THEN PrimeField4_mul(p, Y2, X) ELSE Y2)

PrimeField4_pow(p, X, e) == Pow4Loop(p, X, Tail(BinDigits(e)), X)

(***************************************************************************)
(* PrimeField12 (primefield.py): Fp12 = Fp4[w] / (w^3 - v).  An element is *)
(* the triple (X2, X1, X0) of elements of Fp4.                             *)
(***************************************************************************)
\* PrimeField12._ALPHA = ((0, 1), (0, 0)): the element v of Fp4.
PrimeField12_ALPHA == <<<<0, 1>>, <<0, 0>>>>

PrimeField12_zero == <<PrimeField4_zero, PrimeField4_zero, PrimeField4_zero>>
PrimeField12_one == <<PrimeField4_zero, PrimeField4_zero, PrimeField4_one>>

\* extend of an element of Fp and of an element of Fp2.
PrimeField12_extend(x) ==
    <<PrimeField4_zero, PrimeField4_zero, <<PrimeField2_zero, <<0, x>>>>>>
PrimeField12_extend2(x) == <<PrimeField4_zero, PrimeField4_zero, <<PrimeField2_zero, x>>>>

PrimeField12_isoppo(p, X, Y) ==
    /\ PrimeField4_isoppo(p, X[1], Y[1])
    /\ PrimeField4_isoppo(p, X[2], Y[2])
    /\ PrimeField4_isoppo(p, X[3], Y[3])
PrimeField12_smul(p, k, X) ==
    <<PrimeField4_smul(p, k, X[1]), PrimeField4_smul(p, k, X[2]), PrimeField4_smul(p, k, X[3])>>
PrimeField12_sub(p, X, Y) ==
    <<PrimeField4_sub(p, X[1], Y[1]), PrimeField4_sub(p, X[2], Y[2]),
      PrimeField4_sub(p, X[3], Y[3])>>

PrimeField12_mul(p, X, Y) ==
    LET X2 == X[1]
        X1 == X[2]
        X0 == X[3]
        Y2 == Y[1]
        Y1 == Y[2]
        Y0 == Y[3]
        U == PrimeField12_ALPHA
        X2mY2 == PrimeField4_mul(p, X2, Y2)
        X1mY1 == PrimeField4_mul(p, X1, Y1)
        X0mY0 == PrimeField4_mul(p, X0, Y0)
        X2aX1_m_Y2aY1 ==
            PrimeField4_mul(p, PrimeField4_add(p, X2, X1), PrimeField4_add(p, Y2, Y1))
        X2aX0_m_Y2aY0 ==
            PrimeField4_mul(p, PrimeField4_add(p, X2, X0), PrimeField4_add(p, Y2, Y0))
        X1aX0_m_Y1aY0 ==
            PrimeField4_mul(p, PrimeField4_add(p, X1, X0), PrimeField4_add(p, Y1, Y0))
        UmX2mY2 == PrimeField4_mul(p, U, X2mY2)
        X2mY1_a_X1Y2 == PrimeField4_sub(p, X2aX1_m_Y2aY1, PrimeField4_add(p, X2mY2, X1mY1))
    IN  <<PrimeField4_sub(p, PrimeField4_add(p, X2aX0_m_Y2aY0, X1mY1),
                          PrimeField4_add(p, X2mY2, X0mY0)),
          PrimeField4_sub(p, PrimeField4_add(p, UmX2mY2, X1aX0_m_Y1aY0),
                          PrimeField4_add(p, X1mY1, X0mY0)),
          PrimeField4_add(p, PrimeField4_mul(p, U, X2mY1_a_X1Y2), X0mY0)>>

PrimeField12_inv(p, X) ==
    LET X2 == X[1]
        X1 == X[2]
        X0 == X[3]
        U == PrimeField12_ALPHA
        UmX2 == PrimeField4_mul(p, U, X2)
        UmX1 == PrimeField4_mul(p, U, X1)
        X1mX1_s_X2mX0 ==
            PrimeField4_sub(p, PrimeField4_mul(p, X1, X1), PrimeField4_mul(p, X2, X0))
        UmX2mX2_s_X1X0 ==
            PrimeField4_sub(p, PrimeField4_mul(p, UmX2, X2), PrimeField4_mul(p, X1, X0))
        X0mX0_s_UmX2mX1 ==
            PrimeField4_sub(p, PrimeField4_mul(p, X0, X0), PrimeField4_mul(p, UmX2, X1))
        det == PrimeField4_add(p, PrimeField4_mul(p, UmX2, UmX2mX2_s_X1X0),
                   PrimeField4_add(p, PrimeField4_mul(p, UmX1, X1mX1_s_X2mX0),
                                   PrimeField4_mul(p, X0, X0mX0_s_UmX2mX1)))
        invdet == PrimeField4_inv(p, det)
    IN  <<PrimeField4_mul(p, X1mX1_s_X2mX0, invdet),
          PrimeField4_mul(p, UmX2mX2_s_X1X0, invdet),
          PrimeField4_mul(p, X0mX0_s_UmX2mX1, invdet)>>

\* The for loop of PrimeField12.pow over the binary digits of e after the first.
RECURSIVE Pow12Loop(_, _, _, _)
Pow12Loop(p, X, bits, Y) ==
    IF Len(bits) = 0 THEN Y
    ELSE LET Y2 == PrimeField12_mul(p, Y, Y)
         IN  Pow12Loop(p, X, Tail(bits),
                       IF Head(bits) = 1 THEN PrimeField12_mul(p, Y2, X) ELSE Y2)

PrimeField12_pow(p, X, e) == Pow12Loop(p, X, Tail(BinDigits(e)), X)

(***************************************************************************)
(* EllipticCurve over Fp2: the same methods, on PrimeField2.               *)
(***************************************************************************)
\* EllipticCurve.INF beside points whose coordinates are pairs.
INF2 == <<None2, None2>>

EllipticCurve2_get_y_sqr(ec, x) ==
    PrimeField2_add(ec.p, PrimeField2_pow(ec.p, x, 3),
                    PrimeField2_add(ec.p, PrimeField2_mul(ec.p, ec.a, x), ec.b))

EllipticCurve2_get_y(ec, x) == PrimeField2_sqrt(ec.p, EllipticCurve2_get_y_sqr(ec, x))

EllipticCurve2_isvalid(ec, P) ==
    PrimeField2_mul(ec.p, P[2], P[2]) = EllipticCurve2_get_y_sqr(ec, P[1])

(***************************************************************************)
(* The BN curve of SM9 (sm9.py, ellipticcurve.py), on a small prime with   *)
(* the residue 5 modulo 8 of the SM9 prime and ALPHA a non-residue; the    *)
(* twist is y^2 = x^3 + beta.b over Fp2.                                   *)
(***************************************************************************)
bnbp == [p |-> 13, b |-> 5, beta |-> <<1, 0>>]

BNBP_ec2 ==
    [p |-> bnbp.p, a |-> PrimeField2_zero,
     b |-> PrimeField2_mul(bnbp.p, bnbp.beta, PrimeField2_extend(bnbp.b))]

\* point_to_bytes_2 / bytes_to_point_2 (sm9.py).
point_to_bytes_2(P, mode) ==
    IF P = INF2 THEN <<0>>
    ELSE LET x == P[1]
             y == P[2]
             etob2(e) == PrimeField2_etob(bnbp.p, e)
         IN  IF mode = "RAW" THEN <<4>> \o etob2(x) \o etob2(y)
             ELSE IF mode = "COMPRESS"
             THEN (IF y[2] % 2 = 1 THEN <<3>> \o etob2(x) ELSE <<2>> \o etob2(x))
             ELSE (IF y[2] % 2 = 1 THEN <<7>> \o etob2(x) \o etob2(y)
                   ELSE <<6>> \o etob2(x) \o etob2(y))

\* The point, or the name of what bytes_to_point_2 raises.
bytes_to_point_2(b) ==
    LET mode == b[1]
        e_length == PrimeField2_e_length(bnbp.p)
        point == Slice(b, 1, Len(b))
        x == PrimeField2_btoe(bnbp.p, Slice(point, 0, e_length))
        y == EllipticCurve2_get_y(BNBP_ec2, x)
        ylsb == y[2] % 2
    IN  IF mode = 0 THEN [status |-> "return", P |-> INF2]
        ELSE IF mode = 4 \/ mode = 6 \/ mode = 7
        THEN [status |-> "return",
              P |-> <<x, PrimeField2_btoe(bnbp.p, Slice(point, e_length, Len(point)))>>]
        ELSE IF mode = 2 \/ mode = 3
        THEN (IF y = None2 THEN [status |-> "PointNotOnCurveError", P |-> INF2]
              ELSE IF (mode = 2 /\ ylsb = 1) \/ (mode = 3 /\ ylsb # 1)
              THEN [status |-> "return", P |-> <<x, PrimeField2_neg(bnbp.p, y)>>]
              ELSE [status |-> "return", P |-> <<x, y>>])
        ELSE [status |-> "InvalidPCError", P |-> INF2]

(***************************************************************************)
(* Block cipher working modes (bcmode.py) over a block cipher with blocks  *)
(* of BcBlockLen bytes.  The cipher stands for SM4 under one key: a        *)
(* permutation of the blocks, with its inverse.                            *)
(***************************************************************************)
block_length == BcBlockLen

\* bc.encrypt(block): the bytes rotated by one place, each shifted by a
\* constant that depends on its place.
BC_encrypt(block) ==
    [i \in 1..Len(block) |-> (block[(i % Len(block)) + 1] + 29 * i + 1) % 256]

\* bc.decrypt(block)
BC_decrypt(block) ==
    [j \in 1..Len(block) |->
        LET i == ((j - 2) % Len(block)) + 1
        IN  (block[i] - 29 * i - 1) % 256]

\* A mode object: the arguments it was built from (kind, iv, seg) and its
\* fields _last_cipher_block (CBC), _shift_register (CFB), _key_stream,
\* _next_key_block_in (OFB) and _init_key_stream.
BCM(kind, iv, seg, last, sr, ks, nk, init_ks) ==
    [kind |-> kind, iv |-> iv, seg |-> seg, last |-> last, sr |-> sr, ks |-> ks,
     nk |-> nk, init_ks |-> init_ks]

Returned(o, out) == [obj |-> o, status |-> "return", out |-> out]
Raised(o, what) == [obj |-> o, status |-> what, out |-> <<>>]

\* BlockCipherModeCBC
CBC_new(iv) == BCM("CBC", iv, 0, iv, <<>>, <<>>, <<>>, <<>>)

CBC_reset(o) == [o EXCEPT !.last = o.iv]

RECURSIVE CBCEncLoop(_, _, _, _)
CBCEncLoop(plain, i, last, acc) ==
    IF i >= Len(plain) THEN [last |-> last, out |-> acc]
    ELSE LET plain_block == Slice(plain, i, i + block_length)
             cipher_block == BC_encrypt(XorZip(last, plain_block))
         IN  CBCEncLoop(plain, i + block_length, cipher_block, acc \o cipher_block)

CBC_encrypt(o, plain) ==
    IF Len(plain) % block_length # 0 THEN Raised(o, "IncorrectLengthError")
    ELSE LET r == CBCEncLoop(plain, 0, o.last, <<>>)
         IN  Returned([o EXCEPT !.last = r.last], r.out)

RECURSIVE CBCDecLoop(_, _, _, _)
CBCDecLoop(cipher, i, last, acc) ==
    IF i >= Len(cipher) THEN [last |-> last, out |-> acc]
    ELSE LET cipher_block == Slice(cipher, i, i + block_length)
             plain_block == XorZip(last, BC_decrypt(cipher_block))
         IN  CBCDecLoop(cipher, i + block_length, cipher_block, acc \o plain_block)

CBC_decrypt(o, cipher) ==
    IF Len(cipher) % block_length # 0 THEN Raised(o, "IncorrectLengthError")
    ELSE LET r == CBCDecLoop(cipher, 0, o.last, <<>>)
         IN  Returned([o EXCEPT !.last = r.last], r.out)

\* a % b of Python for b other than 0: the result has the sign of b.
PyMod(a, b) == IF b > 0 THEN a % b ELSE 0 - ((0 - a) % (0 - b))

\* A CFB constructor that keeps the whole encrypted block as key stream.
CFB_new_whole_block(iv, seg) ==
    BCM("CFB", iv, seg, <<>>, iv, BC_encrypt(iv), <<>>, BC_encrypt(iv))

\* BlockCipherModeCFB
CFB_new(iv, seg) ==
    LET ks == Slice(BC_encrypt(iv), 0, seg)
    IN  BCM("CFB", iv, seg, <<>>, iv, ks, <<>>, ks)

\* BlockCipherModeCFB.__init__ with its two checks.
CFB_init(iv, seg) ==
    IF Len(iv) # block_length THEN Raised(CFB_new(iv, seg), "IncorrectLengthError")
    ELSE IF seg > block_length THEN Raised(CFB_new(iv, seg), "InvalidArgumentError")
    ELSE Returned(CFB_new(iv, seg), <<>>)

\* reset that restores the shift register alone.
CFB_reset_register_only(o) == [o EXCEPT !.sr = o.iv]

CFB_reset(o) == [o EXCEPT !.sr = o.iv, !.ks = o.init_ks]

\* The for loop of CFB encrypt over the whole segments of plain.
RECURSIVE CFBEncLoop(_, _, _, _, _, _, _)
CFBEncLoop(plain, i, segs_len, seg, sr, ks, acc) ==
    IF i >= segs_len \/ seg < 0 THEN [sr |-> sr, ks |-> ks, out |-> acc]
    ELSE LET cipher_segment == XorZip(ks, Slice(plain, i, i + seg))
             sr1 == Slice(sr, seg, Len(sr)) \o cipher_segment
         IN  CFBEncLoop(plain, i + seg, segs_len, seg, sr1,
                        Slice(BC_encrypt(sr1), 0, seg), acc \o cipher_segment)

CFB_encrypt(o, data) ==
    LET cipher_head == XorZip(o.ks, data)
        head_len == Len(cipher_head)
        sr1 == Slice(o.sr, head_len, Len(o.sr)) \o cipher_head
        ks1 == Slice(o.ks, head_len, Len(o.ks))
        ks2 == Slice(BC_encrypt(sr1), 0, o.seg)
        plain == Slice(data, head_len, Len(data))
        plain_len == Len(plain)
        tail_len == PyMod(plain_len, o.seg)
        plain_segments_len == plain_len - tail_len
        r == CFBEncLoop(plain, 0, plain_segments_len, o.seg, sr1, ks2, cipher_head)
        cipher_tail == XorZip(r.ks, Slice(plain, plain_segments_len, plain_len))
    IN  IF Len(data) <= 0 THEN Returned(o, <<>>)
        ELSE IF Len(ks1) > 0 THEN Returned([o EXCEPT !.sr = sr1, !.ks = ks1], cipher_head)
        ELSE IF plain_len <= 0 THEN Returned([o EXCEPT !.sr = sr1, !.ks = ks2], cipher_head)
        ELSE IF o.seg = 0 THEN Raised([o EXCEPT !.sr = sr1, !.ks = ks2], "ZeroDivisionError")
        ELSE IF tail_len > 0
        THEN Returned([o EXCEPT !.sr = Slice(r.sr, tail_len, Len(r.sr)) \o cipher_tail,
                                !.ks = Slice(r.ks, tail_len, Len(r.ks))],
                      r.out \o cipher_tail)
        ELSE Returned([o EXCEPT !.sr = r.sr, !.ks = r.ks], r.out)

\* The for loop of CFB decrypt over the whole segments of cipher.
RECURSIVE CFBDecLoop(_, _, _, _, _, _, _)
CFBDecLoop(cipher, i, segs_len, seg, sr, ks, acc) ==
    IF i >= segs_len \/ seg < 0 THEN [sr |-> sr, ks |-> ks, out |-> acc]
    ELSE LET cipher_segment == Slice(cipher, i, i + seg)
             plain_segment == XorZip(ks, cipher_segment)
             sr1 == Slice(sr, seg, Len(sr)) \o cipher_segment
         IN  CFBDecLoop(cipher, i + seg, segs_len, seg, sr1,
                        Slice(BC_encrypt(sr1), 0, seg), acc \o plain_segment)

\* decrypt that feeds its output, not its input, into the shift register.
CFB_decrypt_feeds_plain(o, data) == CFB_encrypt(o, data)

CFB_decrypt(o, data) ==
    LET plain_head == XorZip(o.ks, data)
        head_len == Len(plain_head)
        sr1 == Slice(o.sr, head_len, Len(o.sr)) \o Slice(data, 0, head_len)
        ks1 == Slice(o.ks, head_len, Len(o.ks))
        ks2 == Slice(BC_encrypt(sr1), 0, o.seg)
        cipher == Slice(data, head_len, Len(data))
        cipher_len == Len(cipher)
        tail_len == PyMod(cipher_len, o.seg)
        cipher_segments_len == cipher_len - tail_len
        r == CFBDecLoop(cipher, 0, cipher_segments_len, o.seg, sr1, ks2, plain_head)
        cipher_tail == Slice(cipher, cipher_segments_len, cipher_len)
        plain_tail == XorZip(r.ks, cipher_tail)
    IN  IF Len(data) <= 0 THEN Returned(o, <<>>)
        ELSE IF Len(ks1) > 0 THEN Returned([o EXCEPT !.sr = sr1, !.ks = ks1], plain_head)
        ELSE IF cipher_len <= 0 THEN Returned([o EXCEPT !.sr = sr1, !.ks = ks2], plain_head)
        ELSE IF o.seg = 0 THEN Raised([o EXCEPT !.sr = sr1, !.ks = ks2], "ZeroDivisionError")
        ELSE IF tail_len > 0
        THEN Returned([o EXCEPT !.sr = Slice(r.sr, tail_len, Len(r.sr)) \o cipher_tail,
                                !.ks = Slice(r.ks, tail_len, Len(r.ks))],
                      r.out \o plain_tail)
        ELSE Returned([o EXCEPT !.sr = r.sr, !.ks = r.ks], r.out)

\* BlockCipherModeOFB
OFB_new(iv) ==
    LET ks == BC_encrypt(iv)
    IN  BCM("OFB", iv, 0, <<>>, <<>>, ks, ks, ks)

OFB_reset(o) == [o EXCEPT !.ks = o.init_ks, !.nk = o.init_ks]

\* The for loop of OFB encrypt, and of OFB decrypt, over the whole blocks.
RECURSIVE OFBLoop(_, _, _, _, _)
OFBLoop(data, i, blocks_len, ks, acc) ==
    IF i >= blocks_len THEN [ks |-> ks, out |-> acc]
    ELSE OFBLoop(data, i + block_length, blocks_len, BC_encrypt(ks),
                 acc \o XorZip(ks, Slice(data, i, i + block_length)))

OFB_encrypt(o, data) ==
    LET cipher_head == XorZip(o.ks, data)
        head_len == Len(cipher_head)
        ks1 == Slice(o.ks, head_len, Len(o.ks))
        ks2 == BC_encrypt(o.nk)
        plain == Slice(data, head_len, Len(data))
        plain_len == Len(plain)
        tail_len == plain_len % block_length
        plain_blocks_len == plain_len - tail_len
        r == OFBLoop(plain, 0, plain_blocks_len, ks2, cipher_head)
        cipher_tail == XorZip(r.ks, Slice(plain, plain_blocks_len, plain_len))
    IN  IF Len(data) <= 0 THEN Returned(o, <<>>)
        ELSE IF Len(ks1) > 0 THEN Returned([o EXCEPT !.ks = ks1], cipher_head)
        ELSE IF plain_len <= 0 THEN Returned([o EXCEPT !.ks = ks2, !.nk = ks2], cipher_head)
        ELSE IF tail_len > 0
        THEN Returned([o EXCEPT !.ks = Slice(r.ks, tail_len, Len(r.ks)), !.nk = r.ks],
                      r.out \o cipher_tail)
        ELSE Returned([o EXCEPT !.ks = r.ks, !.nk = r.ks], r.out)

OFB_decrypt(o, data) ==
    LET plain_head == XorZip(o.ks, data)
        head_len == Len(plain_head)
        ks1 == Slice(o.ks, head_len, Len(o.ks))
        ks2 == BC_encrypt(o.nk)
        cipher == Slice(data, head_len, Len(data))
        cipher_len == Len(cipher)
        tail_len == cipher_len % block_length
        cipher_blocks_len == cipher_len - tail_len
        r == OFBLoop(cipher, 0, cipher_blocks_len, ks2, plain_head)
        plain_tail == XorZip(r.ks, Slice(cipher, cipher_blocks_len, cipher_len))
    IN  IF Len(data) <= 0 THEN Returned(o, <<>>)
        ELSE IF Len(ks1) > 0 THEN Returned([o EXCEPT !.ks = ks1], plain_head)
        ELSE IF cipher_len <= 0 THEN Returned([o EXCEPT !.ks = ks2, !.nk = ks2], plain_head)
        ELSE IF tail_len > 0
        THEN Returned([o EXCEPT !.ks = Slice(r.ks, tail_len, Len(r.ks)), !.nk = r.ks],
                      r.out \o plain_tail)
        ELSE Returned([o EXCEPT !.ks = r.ks, !.nk = r.ks], r.out)

\* The calls on a mode object, by its class.
BCM_new(kind, iv, seg) ==
    IF kind = "CBC" THEN CBC_new(iv)
    ELSE IF kind = "CFB" THEN CFB_new(iv, seg)
    ELSE OFB_new(iv)

BCM_reset(o) ==
    IF o.kind = "CBC" THEN CBC_reset(o)
    ELSE IF o.kind = "CFB" THEN CFB_reset(o)
    ELSE OFB_reset(o)

BCM_encrypt(o, data) ==
    IF o.kind = "CBC" THEN CBC_encrypt(o, data)
    ELSE IF o.kind = "CFB" THEN CFB_encrypt(o, data)
    ELSE OFB_encrypt(o, data)

BCM_decrypt(o, data) ==
    IF o.kind = "CBC" THEN CBC_decrypt(o, data)
    ELSE IF o.kind = "CFB" THEN CFB_decrypt(o, data)
    ELSE OFB_decrypt(o, data)

(***************************************************************************)
(* The objects before use.  Each specification below drives one object and *)
(* leaves the others as they are here.                                     *)
(***************************************************************************)
SM3Idle ==
    /\ sm3 = SM3_init
    /\ sm3_fed = <<>>
    /\ sm3_out = <<>>
    /\ sm3_op = "idle"
    /\ sm3_nvalue = 0

NoCipher == [C1 |-> INF, C2 |-> <<>>, C3 |-> <<>>]
NoDec == [status |-> "none", M |-> <<>>]

SM2Fresh ==
    /\ sm2_pc = "idle"
    /\ sm2_k = 0
    /\ sm2_sig = <<0, 0>>
    /\ sm2_vpk = INF
    /\ sm2_verdict = "none"
    /\ sm2_cipher = NoCipher
    /\ sm2_sent = NoCipher
    /\ sm2_dec = NoDec

SM2Idle ==
    /\ sm2_sk = 0
    /\ sm2_uid = <<>>
    /\ sm2_pk = INF
    /\ sm2_arg = <<>>
    /\ SM2Fresh

NoKey == [status |-> "none", key |-> <<>>]

KXFresh ==
    /\ kx_pcA = "idle"
    /\ kx_pcB = "idle"
    /\ kx_RA = <<>>
    /\ kx_tA = 0
    /\ kx_RB = <<>>
    /\ kx_tB = 0
    /\ kx_keyA = NoKey
    /\ kx_keyB = NoKey

KXIdle ==
    /\ kx_skA = 0
    /\ kx_skB = 0
    /\ kx_mode = "RAW"
    /\ KXFresh

NoCall == [status |-> "none", out |-> <<>>]

\* What the stream runs and the reset runs each leave unused.
BCStreamFresh ==
    /\ bc_phase = "enc"
    /\ bc_plain = <<>>
    /\ bc_cipher = <<>>
    /\ bc_nfed = 0
    /\ bc_dec = <<>>

BCResetFresh ==
    /\ bc_out = NoCall
    /\ bc_twin_out = NoCall
    /\ bc_ncalls = 0
    /\ bc_nreset = 0
    /\ bc_raised = FALSE

BCIdle ==
    /\ bc = CBC_new(Zeros(block_length))
    /\ bc_twin = bc
    /\ BCStreamFresh
    /\ BCResetFresh

NoPoint == [status |-> "none", P |-> INF]

PCFresh ==
    /\ pc_bytes = <<>>
    /\ pc_back = NoPoint
    /\ pc_op = "new"

PCIdle ==
    /\ pc_P = INF
    /\ pc_mode = "RAW"
    /\ PCFresh

NoResult == [status |-> "none", out |-> <<>>]

FnFresh ==
    /\ fn_out = NoResult
    /\ fn_op = "new"

FnIdle ==
    /\ fn_in = <<>>
    /\ FnFresh

NoObject == [sk |-> <<>>, uid |-> <<>>, pk |-> <<>>, pc_mode |-> "RAW"]

FacFresh ==
    /\ fac_call = [name |-> "none"]
    /\ fac_out = NoResult

FacIdle ==
    /\ core_ecdlp = sm2p17
    /\ fac = NoObject
    /\ FacFresh

S9Fresh ==
    /\ s9_pc = "new"
    /\ s9_mid = <<>>
    /\ s9_out = <<>>

S9Idle ==
    /\ s9_in = <<>>
    /\ S9Fresh

othersSM3Idle == SM2Idle /\ KXIdle /\ BCIdle /\ PCIdle /\ FnIdle /\ FacIdle /\ S9Idle
othersSM2Idle == SM3Idle /\ KXIdle /\ BCIdle /\ PCIdle /\ FnIdle /\ FacIdle /\ S9Idle
othersKXIdle == SM3Idle /\ SM2Idle /\ BCIdle /\ PCIdle /\ FnIdle /\ FacIdle /\ S9Idle
othersBCIdle == SM3Idle /\ SM2Idle /\ KXIdle /\ PCIdle /\ FnIdle /\ FacIdle /\ S9Idle
othersPCIdle == SM3Idle /\ SM2Idle /\ KXIdle /\ BCIdle /\ FnIdle /\ FacIdle /\ S9Idle
othersFnIdle == SM3Idle /\ SM2Idle /\ KXIdle /\ BCIdle /\ PCIdle /\ FacIdle /\ S9Idle
othersFacIdle == SM3Idle /\ SM2Idle /\ KXIdle /\ BCIdle /\ PCIdle /\ FnIdle /\ S9Idle
othersS9Idle == SM3Idle /\ SM2Idle /\ KXIdle /\ BCIdle /\ PCIdle /\ FnIdle /\ FacIdle

(***************************************************************************)
(* The pairing groups SM9Core works on (self.bnbp).  sm9.py builds them    *)
(* with Ec.BNBP and uses its fpn, fp1, ec1, kG1, kG2, e, eG2 and fp12;     *)
(* ellipticcurve.py holds no class of that name, so the groups follow the  *)
(* specification: G1 of prime order n on y^2 = x^3 + b over Fp, G2 and GT  *)
(* of the same order, e bilinear and non-degenerate.  In the SM9 machines  *)
(* core_ecdlp holds G1 (ec1, fp1, G1, n), so that ECDLP_ec is ec1, etob is *)
(* fp1.etob and the point codec of sm2.py is the one of sm9.py, which is   *)
(* the same code on _bnbp.ec1.  An element of G2 is written as its         *)
(* logarithm to the base G2, an element of GT as its logarithm to the base *)
(* e(G1, G2); 0 is the neutral element of either.                          *)
(***************************************************************************)
bn19 == [p |-> 13, a |-> 0, b |-> 2, G |-> <<1, 4>>, n |-> 19, h |-> 1]

BNBP_kG1(k) == ECDLP_kG(k)
BNBP_kG2(k) == k % ecdlp.n

\* The k with P = k.G1, for P in G1.
BNBP_G1 ==
    [k \in 1..(bn19.n - 1) |->
        EllipticCurve_mul([p |-> bn19.p, a |-> bn19.a, b |-> bn19.b], k, bn19.G)]

BNBP_log1(P) ==
    IF P = INF THEN 0 ELSE CHOOSE k \in 1..(bn19.n - 1) : BNBP_G1[k] = P

\* e(a.G1, b.G2) = e(G1, G2)^(a.b)
BNBP_e(P, Q) == (BNBP_log1(P) * Q) % ecdlp.n
BNBP_eG2(P) == BNBP_e(P, BNBP_kG2(1))

BNBP_fp12_pow(g, k) == (g * k) % ecdlp.n

\* fp12.etob: a fixed number of bytes for every element.
BNBP_fp12_etob(g) == to_bytes(g, PrimeField_e_length(ecdlp.n))

(***************************************************************************)
(* SM9Core (sm9.py).                                                       *)
(***************************************************************************)
\* self._hlen = math.ceil((5 * math.log2(n)) / 32); n is odd, so n^5 is no
\* power of two and the ceiling is one more than the floor.
SM9Core_hlen ==
    (bit_length(ecdlp.n * ecdlp.n * ecdlp.n * ecdlp.n * ecdlp.n) - 1) \div 32 + 1

\* _cipher_fn when it does not raise (hlen needs no counter above MaxCt).
SM9Core_cipher_fn(prefix_byte, Z, hlen) ==
    LET v == hash_length
        count == hlen \div v
        tail == hlen % v
        Z1 == prefix_byte \o Z
        Ha == KdfBlocks(Z1, 1, count)
              \o (IF tail > 0 THEN Slice(hash_fn(Z1 \o to_bytes(count + 1, 4)), 0, tail)
                  ELSE <<>>)
    IN  (from_bytes(Ha) % (ecdlp.n - 1)) + 1

SM9Core_H1(Z) == SM9Core_cipher_fn(<<1>>, Z, SM9Core_hlen)
SM9Core_H2(Z) == SM9Core_cipher_fn(<<2>>, Z, SM9Core_hlen)

\* _mac with the key before the data.
SM9Core_mac_key_first(key, Z) == hash_fn(key \o Z)

SM9Core_mac(key, Z) == hash_fn(Z \o key)

SM9Core_generate_mpk_encrypt(msk_e) == BNBP_kG1(msk_e)

\* errors.py defines no InvalidUserKeyError: evaluating the name in the
\* raise statement raises AttributeError.
SM9Core_generate_sk_sign(hid_s, msk_s, uid) ==
    LET t1 == PrimeField_add(ecdlp.n, SM9Core_H1(uid \o hid_s), msk_s)
        t2 == PrimeField_mul(ecdlp.n, msk_s, PrimeField_inv(ecdlp.n, t1))
    IN  IF PrimeField_iszero(t1) THEN [status |-> "AttributeError", out |-> <<>>]
        ELSE [status |-> "return", out |-> BNBP_kG1(t2)]

SM9Core_generate_sk_encrypt(hid_e, msk_e, uid) ==
    LET t1 == PrimeField_add(ecdlp.n, SM9Core_H1(uid \o hid_e), msk_e)
        t2 == PrimeField_mul(ecdlp.n, msk_e, PrimeField_inv(ecdlp.n, t1))
    IN  IF PrimeField_iszero(t1) THEN [status |-> "AttributeError", out |-> <<>>]
        ELSE [status |-> "return", out |-> BNBP_kG2(t2)]

\* begin_key_exchange for the draw r that _randint(1, n - 1) returned.
SM9Core_begin_key_exchange(hid_e, mpk_e, uid, r) ==
    LET Q == EllipticCurve_add(ECDLP_ec, BNBP_kG1(SM9Core_H1(uid \o hid_e)), mpk_e)
    IN  [r |-> r, R |-> EllipticCurve_mul(ECDLP_ec, r, Q)]

\* get_secret_data; isvalid raises TypeError on INF.
SM9Core_get_secret_data(mpk_e, r, R, sk_e) ==
    LET g1 == BNBP_fp12_pow(BNBP_eG2(mpk_e), r)
        g2 == BNBP_e(R, sk_e)
        g3 == BNBP_fp12_pow(g2, r)
    IN  IF R = INF THEN [status |-> "TypeError", out |-> <<>>]
        ELSE IF ~EllipticCurve_isvalid(ECDLP_ec, R)
        THEN [status |-> "PointNotOnCurveError", out |-> <<>>]
        ELSE [status |-> "return", out |-> <<g1, g2, g3>>]

SM9Core_generate_skey(klen, g1, g2, g3, uid_init, R_init, uid_resp, R_resp) ==
    LET Z == uid_init \o uid_resp
             \o etob(R_init[1]) \o etob(R_init[2])
             \o etob(R_resp[1]) \o etob(R_resp[2])
             \o BNBP_fp12_etob(g1) \o BNBP_fp12_etob(g2) \o BNBP_fp12_etob(g3)
    IN  IF key_derivation_fn_overflow(klen)
        THEN [status |-> "DataOverflowError", out |-> <<>>]
        ELSE [status |-> "return", out |-> key_derivation_fn(Z, klen)]

\* One pass of the loop of encapsulate, for the draw r: the pass returns
\* K and C, or ends in continue.
\* The rest of the pass once K is derived: raise, continue or return.
SM9Core_encapsulate_end(klen, K, C) ==
    IF key_derivation_fn_overflow(klen)
    THEN [status |-> "DataOverflowError", K |-> <<>>, C |-> C]
    ELSE IF ~AnyNonZero(K) THEN [status |-> "continue", K |-> <<>>, C |-> C]
    ELSE [status |-> "return", K |-> K, C |-> C]

\* The rest of the pass once C = r.Q and w = g^r are computed.
SM9Core_encapsulate_kdf(klen, uid, C, w) ==
    SM9Core_encapsulate_end(klen,
        key_derivation_fn(etob(C[1]) \o etob(C[2]) \o BNBP_fp12_etob(w) \o uid, klen), C)

SM9Core_encapsulate_pass(hid_e, mpk_e, klen, uid, r) ==
    SM9Core_encapsulate_kdf(klen, uid,
        EllipticCurve_mul(ECDLP_ec, r,
            EllipticCurve_add(ECDLP_ec, BNBP_kG1(SM9Core_H1(uid \o hid_e)), mpk_e)),
        BNBP_fp12_pow(BNBP_eG2(mpk_e), r))

SM9Core_decapsulate(C, klen, sk_e, uid) ==
    LET w == BNBP_e(C, sk_e)
        Z == etob(C[1]) \o etob(C[2]) \o BNBP_fp12_etob(w) \o uid
        K == key_derivation_fn(Z, klen)
    IN  IF C = INF THEN [status |-> "TypeError", out |-> <<>>]
        ELSE IF ~EllipticCurve_isvalid(ECDLP_ec, C)
        THEN [status |-> "PointNotOnCurveError", out |-> <<>>]
        ELSE IF key_derivation_fn_overflow(klen)
        THEN [status |-> "DataOverflowError", out |-> <<>>]
        ELSE IF ~AnyNonZero(K) THEN [status |-> "UnknownError", out |-> <<>>]
        ELSE [status |-> "return", out |-> K]

\* encrypt with the pass of encapsulate that draws r; K is the key the
\* pass made, which encrypt does not return.
\* The rest of encrypt once C2 = plain xor K1 is computed.
SM9Core_encrypt_mac(x, mlen, C2) ==
    [status |-> "return", C1 |-> x.C, C2 |-> C2,
     C3 |-> SM9Core_mac(Slice(x.K, mlen, Len(x.K)), C2), K |-> x.K]

\* The rest of encrypt once encapsulate returned x = (K, C) or did not.
SM9Core_encrypt_end(x, plain) ==
    IF x.status # "return"
    THEN [status |-> x.status, C1 |-> x.C, C2 |-> <<>>, C3 |-> <<>>, K |-> <<>>]
    ELSE SM9Core_encrypt_mac(x, Len(plain), XorZip(plain, Slice(x.K, 0, Len(plain))))

SM9Core_encrypt_pass(hid_e, mpk_e, plain, uid, mac_klen, r) ==
    SM9Core_encrypt_end(
        SM9Core_encapsulate_pass(hid_e, mpk_e, Len(plain) + mac_klen, uid, r), plain)

\* The rest of decrypt once decapsulate returned x = K or raised.
SM9Core_decrypt_end(x, C2, C3) ==
    LET mlen == Len(C2)
        K1 == Slice(x.out, 0, mlen)
        K2 == Slice(x.out, mlen, Len(x.out))
        plain == XorZip(C2, K1)
    IN  IF x.status # "return" THEN x
        ELSE IF SM9Core_mac(K2, C2) # C3 THEN [status |-> "CheckFailedError", out |-> <<>>]
        ELSE [status |-> "return", out |-> plain]

SM9Core_decrypt(C1, C2, C3, sk_e, uid, mac_klen) ==
    SM9Core_decrypt_end(SM9Core_decapsulate(C1, Len(C2) + mac_klen, sk_e, uid), C2, C3)

(***************************************************************************)
(* class SM9 (sm9.py): the fields the key exchange uses, as __init__ left  *)
(* them (_mpk_e and _sk_e parsed into points).                             *)
(***************************************************************************)
SM9_new(hid_e, mpk_e, sk_e, uid, mode) ==
    [hid_e |-> hid_e, mpk_e |-> mpk_e, sk_e |-> sk_e, uid |-> uid, pc_mode |-> mode]

SM9_can_exchange_key(o) ==
    TruthyBytes(o.hid_e) /\ TruthyPoint(o.mpk_e) /\ TruthyPoint(o.sk_e) /\ TruthyBytes(o.uid)

SM9_begin_key_exchange(o, uid, r) ==
    IF ~SM9_can_exchange_key(o) THEN RequireArgumentError
    ELSE LET x == SM9Core_begin_key_exchange(o.hid_e[1], o.mpk_e[1], uid, r)
         IN  [status |-> "return", out |-> <<x.r, point_to_bytes(x.R, o.pc_mode)>>]

\* SM9.end_key_exchange that passes g1, g2, g3 in the same order in both
\* modes.
SM9_end_key_exchange_no_swap(o, klen, r, Rb, uid, R2b, mode) ==
    LET R == bytes_to_point(Rb)
        R2 == bytes_to_point(R2b)
        g == SM9Core_get_secret_data(o.mpk_e[1], r, R2, o.sk_e[1])
    IN  IF R = PointNotOnCurveError \/ R2 = PointNotOnCurveError
        THEN [status |-> "PointNotOnCurveError", out |-> <<>>]
        ELSE IF R = InvalidPCError \/ R2 = InvalidPCError
        THEN [status |-> "InvalidPCError", out |-> <<>>]
        ELSE IF g.status # "return" THEN g
        ELSE IF mode = "INITIATOR"
        THEN SM9Core_generate_skey(klen, g.out[1], g.out[2], g.out[3], o.uid[1], R, uid, R2)
        ELSE IF mode = "RESPONDER"
        THEN SM9Core_generate_skey(klen, g.out[1], g.out[2], g.out[3], uid, R2, o.uid[1], R)
        ELSE [status |-> "TypeError", out |-> <<>>]

\* SM9.end_key_exchange on an object that holds _mpk_e, _sk_e and _uid.
SM9_end_key_exchange(o, klen, r, Rb, uid, R2b, mode) ==
    LET R == bytes_to_point(Rb)
        R2 == bytes_to_point(R2b)
        g == SM9Core_get_secret_data(o.mpk_e[1], r, R2, o.sk_e[1])
    IN  IF R = PointNotOnCurveError \/ R2 = PointNotOnCurveError
        THEN [status |-> "PointNotOnCurveError", out |-> <<>>]
        ELSE IF R = InvalidPCError \/ R2 = InvalidPCError
        THEN [status |-> "InvalidPCError", out |-> <<>>]
        ELSE IF g.status # "return" THEN g
        ELSE IF mode = "INITIATOR"
        THEN SM9Core_generate_skey(klen, g.out[1], g.out[2], g.out[3], o.uid[1], R, uid, R2)
        ELSE IF mode = "RESPONDER"
        THEN SM9Core_generate_skey(klen, g.out[2], g.out[1], g.out[3], uid, R2, o.uid[1], R)
        ELSE [status |-> "TypeError", out |-> <<>>]

(***************************************************************************)
(* The SM3 object as a state machine.                                      *)
(***************************************************************************)
SM3Alphabet == {1, 2}
MaxFed == 2 * BlockLen

SM3Init ==
    /\ othersSM3Idle
    /\ sm3 = SM3_init
    /\ sm3_fed = <<>>
    /\ sm3_out = <<>>
    /\ sm3_op = "new"
    /\ sm3_nvalue = 0

SM3Update(data) ==
    /\ Len(sm3_fed) + Len(data) <= MaxFed
    /\ sm3' = SM3_update(sm3, data)
    /\ sm3_fed' = IF SM3_update_overflow(sm3, data) THEN sm3_fed ELSE sm3_fed \o data
    /\ sm3_op' = IF SM3_update_overflow(sm3, data) THEN "overflow" ELSE "update"
    /\ UNCHANGED <<sm3_out, sm3_nvalue>>
    /\ UNCHANGED othersSM3

SM3Value ==
    /\ sm3' = [sm3 EXCEPT !.words = SM3_final(sm3).W]
    /\ sm3_out' = SM3_value(sm3)
    /\ sm3_op' = "value"
    /\ sm3_nvalue' = Min(sm3_nvalue + 1, MaxValueCalls)
    /\ UNCHANGED sm3_fed
    /\ UNCHANGED othersSM3

SM3Next ==
    \/ \E data \in BytesUpTo(SM3Alphabet, MaxFed) : SM3Update(data)
    \/ SM3Value

\* Reference: the padded message of the SM3 standard, cut into blocks.
PadZeros(l) == (2 * BlockLen - LenFieldLen - 1 - (l % BlockLen)) % BlockLen

Pad(m) == Append(m, 128) \o Zeros(PadZeros(Len(m))) \o to_bytes(Len(m) * 8, LenFieldLen)

RECURSIVE Blocks(_)
Blocks(b) ==
    IF Len(b) = 0 THEN <<>>
    ELSE <<Slice(b, 0, BlockLen)>> \o Blocks(Slice(b, BlockLen, Len(b)))

RefDigest(m) == ValueBytes(Blocks(Pad(m)))

(***************************************************************************)
(* SM2Core driven as a state machine: one step per draw of rnd_fn inside   *)
(* the retry loops, one step per call otherwise.                           *)
(***************************************************************************)
SM2Alphabet == {0, 129}
SM2Uids == {<<>>, <<65>>}
\* A key pair (sk, sk.G) with sk in [1, n - 1], a user id and a message.
SM2SignInit ==
    /\ othersSM2Idle
    /\ sm2_sk \in 1..(ecdlp.n - 1)
    /\ sm2_pk = SM2Core_generate_pk(sm2_sk)
    /\ sm2_uid \in SM2Uids
    /\ sm2_arg \in BytesUpTo(SM2Alphabet, MaxPlainLen - 1)
    /\ SM2Fresh

\* sign: one draw of rnd_fn inside _randint, and the loop pass it leads to.
\* "sign_draw": _randint rejected the draw; "sign_continue": the pass ended
\* in continue; "signed": sign returned.
SM2SignDraw(k) ==
    /\ sm2_pc \in {"idle", "sign_draw", "sign_continue"}
    /\ sm2_k' = IF randint_accepts(1, ecdlp.n - 1, k) THEN k ELSE sm2_k
    /\ LET pass == SM2Core_sign_pass(sm2_arg, sm2_sk, sm2_uid, sm2_pk, k)
       IN  IF ~randint_accepts(1, ecdlp.n - 1, k)
           THEN sm2_pc' = "sign_draw" /\ UNCHANGED sm2_sig
           ELSE IF pass.ok
           THEN sm2_pc' = "signed" /\ sm2_sig' = <<pass.r, pass.s>>
           ELSE sm2_pc' = "sign_continue" /\ UNCHANGED sm2_sig
    /\ UNCHANGED <<sm2_sk, sm2_uid, sm2_pk, sm2_arg, sm2_vpk, sm2_verdict,
                   sm2_cipher, sm2_sent, sm2_dec>>
    /\ UNCHANGED othersSM2

\* verify on the signature that sign returned.
SM2Verify ==
    /\ sm2_pc = "signed"
    /\ sm2_verdict' = SM2Core_verify(sm2_arg, sm2_sig[1], sm2_sig[2], sm2_uid, sm2_pk)
    /\ sm2_vpk' = sm2_pk
    /\ sm2_pc' = "verified"
    /\ UNCHANGED <<sm2_sk, sm2_uid, sm2_pk, sm2_arg, sm2_k, sm2_sig,
                   sm2_cipher, sm2_sent, sm2_dec>>
    /\ UNCHANGED othersSM2

\* verify on an arbitrary pair (r, s) and an arbitrary public key argument.
SM2VerifyAny(r, s, pk) ==
    /\ sm2_pc = "idle"
    /\ sm2_sig' = <<r, s>>
    /\ sm2_vpk' = pk
    /\ sm2_verdict' = SM2Core_verify(sm2_arg, r, s, sm2_uid, pk)
    /\ sm2_pc' = "checked"
    /\ UNCHANGED <<sm2_sk, sm2_uid, sm2_pk, sm2_arg, sm2_k,
                   sm2_cipher, sm2_sent, sm2_dec>>
    /\ UNCHANGED othersSM2

\* The r values tried: both ends of [1, n - 1], their neighbours outside
\* it, and one in between.
ForgedR == {0, 1, 2, ecdlp.n - 1, ecdlp.n}

\* The s values tried against each r: the ends of the range and the one
\* that makes r + s a multiple of n.
ForgedS(r) == {0, 1, ecdlp.n - 1, ecdlp.n, (ecdlp.n - (r % ecdlp.n)) % ecdlp.n}

\* Public key arguments: the signer's, the point at infinity, a pair off the curve.
ForgedPk == {sm2_pk, INF, <<0, 0>>}

SM2SignNext ==
    \/ \E k \in RandBits(ecdlp.n - 1) : SM2SignDraw(k)
    \/ SM2Verify
    \/ \E r \in ForgedR : \E s \in ForgedS(r) : \E pk \in ForgedPk :
           SM2VerifyAny(r, s, pk)

(***************************************************************************)
(* encrypt / decrypt, with a ciphertext that may be altered in between.    *)
(***************************************************************************)
\* The secret keys of the encryption runs: both ends of [1, n - 1] and
\* keys in between.
SM2EncKeys == {1, 2, 6, 11, ecdlp.n - 2, ecdlp.n - 1}

SM2EncInit ==
    /\ othersSM2Idle
    /\ sm2_sk \in SM2EncKeys
    /\ sm2_pk = SM2Core_generate_pk(sm2_sk)
    /\ sm2_uid = <<>>
    /\ sm2_arg \in BytesUpTo(SM2Alphabet, MaxPlainLen)
    /\ SM2Fresh

\* encrypt: one draw of rnd_fn inside _randint, and the loop pass it leads to.
SM2EncryptDraw(k) ==
    /\ sm2_pc \in {"idle", "enc_draw", "enc_continue"}
    /\ sm2_k' = IF randint_accepts(1, ecdlp.n - 1, k) THEN k ELSE sm2_k
    /\ LET pass == SM2Core_encrypt_pass(sm2_arg, sm2_pk, k)
           c == [C1 |-> pass.C1, C2 |-> pass.C2, C3 |-> pass.C3]
       IN  IF ~randint_accepts(1, ecdlp.n - 1, k)
           THEN sm2_pc' = "enc_draw" /\ UNCHANGED <<sm2_cipher, sm2_sent>>
           ELSE IF pass.status = "return"
           THEN sm2_pc' = "encrypted" /\ sm2_cipher' = c /\ sm2_sent' = c
           ELSE IF pass.status = "continue"
           THEN sm2_pc' = "enc_continue" /\ UNCHANGED <<sm2_cipher, sm2_sent>>
           ELSE sm2_pc' = pass.status /\ UNCHANGED <<sm2_cipher, sm2_sent>>
    /\ UNCHANGED <<sm2_sk, sm2_uid, sm2_pk, sm2_arg, sm2_sig, sm2_vpk,
                   sm2_verdict, sm2_dec>>
    /\ UNCHANGED othersSM2

\* b with its i-th byte changed in its lowest bit.
FlipByte(b, i) == [b EXCEPT ![i] = XorByte(b[i], 1)]

\* The altered forms of a ciphertext: C1 moved off the curve, replaced by its
\* opposite or by INF; one bit of C2 or of C3 changed; C2 cut by one byte.
Tampered(c) ==
    {[c EXCEPT !.C1 = <<(c.C1[1] + 1) % ecdlp.p, c.C1[2]>>],
     [c EXCEPT !.C1 = <<c.C1[1], (c.C1[2] + 1) % ecdlp.p>>],
     [c EXCEPT !.C1 = EllipticCurve_neg(ECDLP_ec, c.C1)],
     [c EXCEPT !.C1 = INF],
     [c EXCEPT !.C2 = Slice(c.C2, 0, Len(c.C2) - 1)]}
    \cup {[c EXCEPT !.C2 = FlipByte(c.C2, i)] : i \in 1..Len(c.C2)}
    \cup {[c EXCEPT !.C3 = FlipByte(c.C3, i)] : i \in 1..Len(c.C3)}

SM2Tamper(c) ==
    /\ sm2_pc = "encrypted"
    /\ sm2_cipher' = c
    /\ sm2_pc' = "tampered"
    /\ UNCHANGED <<sm2_sk, sm2_uid, sm2_pk, sm2_arg, sm2_k, sm2_sig, sm2_vpk,
                   sm2_verdict, sm2_sent, sm2_dec>>
    /\ UNCHANGED othersSM2

SM2Decrypt ==
    /\ sm2_pc \in {"encrypted", "tampered"}
    /\ sm2_dec' = SM2Core_decrypt(sm2_cipher.C1, sm2_cipher.C2, sm2_cipher.C3, sm2_sk)
    /\ sm2_pc' = "decrypted"
    /\ UNCHANGED <<sm2_sk, sm2_uid, sm2_pk, sm2_arg, sm2_k, sm2_sig, sm2_vpk,
                   sm2_verdict, sm2_cipher, sm2_sent>>
    /\ UNCHANGED othersSM2

SM2EncNext ==
    \/ \E k \in RandBits(ecdlp.n - 1) : SM2EncryptDraw(k)
    \/ \E c \in Tampered(sm2_sent) : SM2Tamper(c)
    \/ SM2Decrypt

SpecSM3 == SM3Init /\ [][SM3Next]_vars

SpecSM2Sign == SM2SignInit /\ [][SM2SignNext]_vars

SpecSM2Enc == SM2EncInit /\ [][SM2EncNext]_vars

(***************************************************************************)
(* Key exchange between two SM2 objects A (initiator) and B (responder).   *)
(***************************************************************************)
KXKeysA == {3, 7, ecdlp.n - 1}
KXKeysB == {1, 12}
KXUidA == <<65>>
KXUidB == <<66>>
KXKlen == HashLen + 1

SM2KXInit ==
    /\ othersKXIdle
    /\ kx_skA \in KXKeysA
    /\ kx_skB \in KXKeysB
    /\ kx_mode \in PC_MODE
    /\ KXFresh

KXpkA == SM2Core_generate_pk(kx_skA)
KXpkB == SM2Core_generate_pk(kx_skB)

\* A.begin_key_exchange(): one draw of rnd_fn inside _randint.
SM2BeginA(r) ==
    /\ kx_pcA \in {"idle", "draw"}
    /\ IF randint_accepts(1, ecdlp.n - 1, r)
       THEN /\ kx_RA' = point_to_bytes(SM2Core_begin_key_exchange(kx_skA, r).R, kx_mode)
            /\ kx_tA' = SM2Core_begin_key_exchange(kx_skA, r).t
            /\ kx_pcA' = "begun"
       ELSE kx_pcA' = "draw" /\ UNCHANGED <<kx_RA, kx_tA>>
    /\ UNCHANGED <<kx_skA, kx_skB, kx_mode, kx_pcB, kx_RB, kx_tB, kx_keyA, kx_keyB>>
    /\ UNCHANGED othersKX

\* B.begin_key_exchange(), once A's R has arrived.
SM2BeginB(r) ==
    /\ kx_pcA = "begun"
    /\ kx_pcB \in {"idle", "draw"}
    /\ IF randint_accepts(1, ecdlp.n - 1, r)
       THEN /\ kx_RB' = point_to_bytes(SM2Core_begin_key_exchange(kx_skB, r).R, kx_mode)
            /\ kx_tB' = SM2Core_begin_key_exchange(kx_skB, r).t
            /\ kx_pcB' = "begun"
       ELSE kx_pcB' = "draw" /\ UNCHANGED <<kx_RB, kx_tB>>
    /\ UNCHANGED <<kx_skA, kx_skB, kx_mode, kx_pcA, kx_RA, kx_tA, kx_keyA, kx_keyB>>
    /\ UNCHANGED othersKX

\* A.end_key_exchange(klen, tA, RB, uidB, pkB, INITIATOR)
SM2EndA ==
    /\ kx_pcA = "begun"
    /\ kx_pcB \in {"begun", "ended"}
    /\ kx_keyA' = SM2_end_key_exchange(KXKlen, kx_tA, kx_RB, KXUidB,
                      point_to_bytes(KXpkB, kx_mode), "INITIATOR", KXUidA, KXpkA)
    /\ kx_pcA' = "ended"
    /\ UNCHANGED <<kx_skA, kx_skB, kx_mode, kx_pcB, kx_RA, kx_tA, kx_RB, kx_tB, kx_keyB>>
    /\ UNCHANGED othersKX

\* B.end_key_exchange(klen, tB, RA, uidA, pkA, RESPONDER)
SM2EndB ==
    /\ kx_pcB = "begun"
    /\ kx_pcA \in {"begun", "ended"}
    /\ kx_keyB' = SM2_end_key_exchange(KXKlen, kx_tB, kx_RA, KXUidA,
                      point_to_bytes(KXpkA, kx_mode), "RESPONDER", KXUidB, KXpkB)
    /\ kx_pcB' = "ended"
    /\ UNCHANGED <<kx_skA, kx_skB, kx_mode, kx_pcA, kx_RA, kx_tA, kx_RB, kx_tB, kx_keyA>>
    /\ UNCHANGED othersKX

SM2KXNext ==
    \/ \E r \in RandBits(ecdlp.n - 1) : SM2BeginA(r)
    \/ \E r \in RandBits(ecdlp.n - 1) : SM2BeginB(r)
    \/ SM2EndA
    \/ SM2EndB

SpecSM2KX == SM2KXInit /\ [][SM2KXNext]_vars

(***************************************************************************)
(* A CFB or OFB object used as a stream: encrypt calls, reset(), decrypt   *)
(* calls on the ciphertext cut at other places.                            *)
(***************************************************************************)
BcAlphabet == {0, 255}
BcIVs == {Zeros(block_length), [i \in 1..block_length |-> 16 * i + 1]}
MaxStream == 2 * BcBlockLen + 1

\* The (class, segment_length) pairs of the stream modes; OFB has no
\* segment length.
StreamKinds == {<<"CFB", seg>> : seg \in 1..block_length} \cup {<<"OFB", 0>>}

BCStreamInit ==
    /\ othersBCIdle
    /\ \E k \in StreamKinds : \E iv \in BcIVs : bc = BCM_new(k[1], iv, k[2])
    /\ bc_twin = bc
    /\ BCStreamFresh
    /\ BCResetFresh

BCStreamEncrypt(chunk) ==
    /\ bc_phase = "enc"
    /\ Len(bc_plain) + Len(chunk) <= MaxStream
    /\ bc' = BCM_encrypt(bc, chunk).obj
    /\ bc_plain' = bc_plain \o chunk
    /\ bc_cipher' = bc_cipher \o BCM_encrypt(bc, chunk).out
    /\ UNCHANGED <<bc_phase, bc_nfed, bc_dec,
                   bc_twin, bc_out, bc_twin_out, bc_ncalls, bc_nreset, bc_raised>>
    /\ UNCHANGED othersBC

BCStreamReset ==
    /\ bc_phase = "enc"
    /\ bc' = BCM_reset(bc)
    /\ bc_phase' = "dec"
    /\ UNCHANGED <<bc_plain, bc_cipher, bc_nfed, bc_dec,
                   bc_twin, bc_out, bc_twin_out, bc_ncalls, bc_nreset, bc_raised>>
    /\ UNCHANGED othersBC

\* decrypt on the next k bytes of the ciphertext.
BCStreamDecrypt(k) ==
    /\ bc_phase = "dec"
    /\ bc_nfed + k <= Len(bc_cipher)
    /\ LET r == BCM_decrypt(bc, Slice(bc_cipher, bc_nfed, bc_nfed + k))
       IN  /\ bc' = r.obj
           /\ bc_dec' = bc_dec \o r.out
    /\ bc_nfed' = bc_nfed + k
    /\ UNCHANGED <<bc_phase, bc_plain, bc_cipher,
                   bc_twin, bc_out, bc_twin_out, bc_ncalls, bc_nreset, bc_raised>>
    /\ UNCHANGED othersBC

BCStreamNext ==
    \/ \E chunk \in BytesUpTo(BcAlphabet, MaxStream) : BCStreamEncrypt(chunk)
    \/ BCStreamReset
    \/ \E k \in 0..MaxStream : BCStreamDecrypt(k)

SpecBCStream == BCStreamInit /\ [][BCStreamNext]_vars

(***************************************************************************)
(* A CBC, CFB or OFB object under any calls, with reset() in between.      *)
(***************************************************************************)
AllKinds == StreamKinds \cup {<<"CBC", 0>>}

\* The arguments of the calls: one or two byte strings of each length up
\* to one byte more than a block.
CallData == {[i \in 1..k |-> (37 * i + c) % 256] : k \in 0..(block_length + 1), c \in {0, 128}}

BCResetInit ==
    /\ othersBCIdle
    /\ \E k \in AllKinds : \E iv \in BcIVs : bc = BCM_new(k[1], iv, k[2])
    /\ bc_twin = bc
    /\ BCStreamFresh
    /\ BCResetFresh

\* Whether the twin object is in use: it is built at the first reset().
TwinLive == bc_nreset > 0

BCEncrypt(data) ==
    /\ bc_ncalls < MaxCalls
    /\ bc' = BCM_encrypt(bc, data).obj
    /\ bc_out' = [status |-> BCM_encrypt(bc, data).status, out |-> BCM_encrypt(bc, data).out]
    /\ bc_twin' = IF TwinLive THEN BCM_encrypt(bc_twin, data).obj ELSE bc_twin
    /\ bc_twin_out' = IF TwinLive
                      THEN [status |-> BCM_encrypt(bc_twin, data).status,
                            out |-> BCM_encrypt(bc_twin, data).out]
                      ELSE bc_twin_out
    /\ bc_ncalls' = bc_ncalls + 1
    /\ bc_raised' = (bc_raised \/ BCM_encrypt(bc, data).status # "return")
    /\ UNCHANGED <<bc_phase, bc_plain, bc_cipher, bc_nfed, bc_dec, bc_nreset>>
    /\ UNCHANGED othersBC

BCDecrypt(data) ==
    /\ bc_ncalls < MaxCalls
    /\ bc' = BCM_decrypt(bc, data).obj
    /\ bc_out' = [status |-> BCM_decrypt(bc, data).status, out |-> BCM_decrypt(bc, data).out]
    /\ bc_twin' = IF TwinLive THEN BCM_decrypt(bc_twin, data).obj ELSE bc_twin
    /\ bc_twin_out' = IF TwinLive
                      THEN [status |-> BCM_decrypt(bc_twin, data).status,
                            out |-> BCM_decrypt(bc_twin, data).out]
                      ELSE bc_twin_out
    /\ bc_ncalls' = bc_ncalls + 1
    /\ bc_raised' = (bc_raised \/ BCM_decrypt(bc, data).status # "return")
    /\ UNCHANGED <<bc_phase, bc_plain, bc_cipher, bc_nfed, bc_dec, bc_nreset>>
    /\ UNCHANGED othersBC

\* reset(), and a fresh object built beside it from the same arguments.
BCReset ==
    /\ bc_nreset < MaxResets
    /\ bc' = BCM_reset(bc)
    /\ bc_twin' = BCM_new(bc.kind, bc.iv, bc.seg)
    /\ bc_out' = NoCall
    /\ bc_twin_out' = NoCall
    /\ bc_ncalls' = 0
    /\ bc_nreset' = bc_nreset + 1
    /\ UNCHANGED <<bc_phase, bc_plain, bc_cipher, bc_nfed, bc_dec, bc_raised>>
    /\ UNCHANGED othersBC

BCResetNext ==
    \/ \E data \in CallData : BCEncrypt(data)
    \/ \E data \in CallData : BCDecrypt(data)
    \/ BCReset

SpecBCReset == BCResetInit /\ [][BCResetNext]_vars

(***************************************************************************)
(* Points written to bytes and read back: over Fp with the SM2 functions,  *)
(* over Fp2 with the SM9 functions.                                        *)
(***************************************************************************)
\* Every point of the curve, INF included.
ValidPoints ==
    {P \in (0..(ecdlp.p - 1)) \X (0..(ecdlp.p - 1)) : EllipticCurve_isvalid(ECDLP_ec, P)}
    \cup {INF}

PCInit ==
    /\ othersPCIdle
    /\ pc_P \in ValidPoints
    /\ pc_mode \in PC_MODE
    /\ PCFresh

PCEncode ==
    /\ pc_op = "new"
    /\ pc_bytes' = point_to_bytes(pc_P, pc_mode)
    /\ pc_op' = "encoded"
    /\ UNCHANGED <<pc_P, pc_mode, pc_back>>
    /\ UNCHANGED othersPC

\* bytes_to_point on the bytes of the point, or on them with the prefix
\* byte replaced.
PCDecode(prefix) ==
    /\ pc_op = "encoded"
    /\ LET r == bytes_to_point(<<prefix>> \o Tail(pc_bytes))
       IN  pc_back' = IF r = PointNotOnCurveError
                      THEN [status |-> "PointNotOnCurveError", P |-> INF]
                      ELSE IF r = InvalidPCError
                      THEN [status |-> "InvalidPCError", P |-> INF]
                      ELSE [status |-> "return", P |-> r]
    /\ pc_op' = IF prefix = pc_bytes[1] THEN "decoded" ELSE "misread"
    /\ UNCHANGED <<pc_P, pc_mode, pc_bytes>>
    /\ UNCHANGED othersPC

Prefixes == {0, 1, 2, 3, 4, 6, 7}

PCNext ==
    \/ PCEncode
    \/ \E prefix \in Prefixes : PCDecode(prefix)

SpecPointCodec == PCInit /\ [][PCNext]_vars

\* Every point of the twist curve over Fp2, INF included.
Fp2 == (0..(bnbp.p - 1)) \X (0..(bnbp.p - 1))

ValidPoints2 ==
    {P \in Fp2 \X Fp2 : EllipticCurve2_isvalid(BNBP_ec2, P)} \cup {INF2}

PC2Init ==
    /\ othersPCIdle
    /\ pc_P \in ValidPoints2
    /\ pc_mode \in PC_MODE
    /\ PCFresh

PC2Encode ==
    /\ pc_op = "new"
    /\ pc_bytes' = point_to_bytes_2(pc_P, pc_mode)
    /\ pc_op' = "encoded"
    /\ UNCHANGED <<pc_P, pc_mode, pc_back>>
    /\ UNCHANGED othersPC

PC2Decode ==
    /\ pc_op = "encoded"
    /\ pc_back' = bytes_to_point_2(pc_bytes)
    /\ pc_op' = "decoded"
    /\ UNCHANGED <<pc_P, pc_mode, pc_bytes>>
    /\ UNCHANGED othersPC

PC2Next == PC2Encode \/ PC2Decode

SpecPointCodec2 == PC2Init /\ [][PC2Next]_vars

(***************************************************************************)
(* _key_derivation_fn as a call.                                           *)
(***************************************************************************)
KdfAlphabet == {0, 255}
KdfInputs == BytesUpTo(KdfAlphabet, 2)
KdfLens == 0..((MaxCt + 2) * HashLen)

KDFInit ==
    /\ othersFnIdle
    /\ fn_in \in [Z : KdfInputs, klen : KdfLens]
    /\ FnFresh

KDFCall ==
    /\ fn_op = "new"
    /\ fn_out' = IF key_derivation_fn_overflow(fn_in.klen)
                 THEN [status |-> "DataOverflowError", out |-> <<>>]
                 ELSE [status |-> "return",
                       out |-> key_derivation_fn(fn_in.Z, fn_in.klen)]
    /\ fn_op' = "called"
    /\ UNCHANGED fn_in
    /\ UNCHANGED othersFn

KDFNext == KDFCall

SpecKDF == KDFInit /\ [][KDFNext]_vars

\* H(Z || 1) || H(Z || 2) || ... up to the counter m, the counter written
\* as 4 big-endian bytes.
RECURSIVE KdfStream(_, _)
KdfStream(Z, m) ==
    IF m = 0 THEN <<>>
    ELSE KdfStream(Z, m - 1) \o RefDigest(Z \o <<0, 0, (m \div 256) % 256, m % 256>>)

CeilDiv(a, b) == (a + b - 1) \div b

(***************************************************************************)
(* SM2Core.entity_info as a call.                                          *)
(***************************************************************************)
\* User ids up to one byte more than ENTL can count in EntlBits bits.
MaxUidLen == Pow2(EntlBits) \div 8 + 1
EntityUids == {[i \in 1..k |-> 65] : k \in 0..MaxUidLen}

EntityInfoInit ==
    /\ othersFnIdle
    /\ fn_in \in [uid : EntityUids, pk : ValidPoints \ {INF}]
    /\ FnFresh

EntityInfoCall ==
    /\ fn_op = "new"
    /\ fn_out' = IF entity_info_overflow(fn_in.uid)
                 THEN [status |-> "DataOverflowError", out |-> <<>>]
                 ELSE [status |-> "return",
                       out |-> SM2Core_entity_info(fn_in.uid, fn_in.pk)]
    /\ fn_op' = "called"
    /\ UNCHANGED fn_in
    /\ UNCHANGED othersFn

EntityInfoNext == EntityInfoCall

SpecEntityInfo == EntityInfoInit /\ [][EntityInfoNext]_vars

(***************************************************************************)
(* An SM2 object built with or without each of sk, uid and pk, and one     *)
(* call made on it.  The peer of the key exchange is a complete object.    *)
(***************************************************************************)
\* The secret key of the object under test, its peer's, and the draw the
\* peer and the twin make.
FacKeys == [sk |-> 5, peer_sk |-> 259, draw |-> 3]
FacSkArgs == {Absent, Some(<<0, 0>>), Some(to_bytes(FacKeys.sk, 2))}
FacUidArgs == {Absent, Some(<<>>), Some(<<66>>)}
FacPkArgs == {Absent, Some(point_to_bytes(SM2Core_generate_pk(FacKeys.sk), "RAW"))}
FacMessages == {<<>>, <<109>>}
FacDraws == {k \in {1, 2, 3, 256, ecdlp.n - 1} : randint_accepts(1, ecdlp.n - 1, k)}
FacPeer == SM2_new(Some(to_bytes(FacKeys.peer_sk, 2)), Some(<<65>>), Absent, "COMPRESS")
\* A complete object with the key pair and uid that the object under test
\* may have, and what it signed and encrypted.
FacTwin == SM2_new(Some(to_bytes(FacKeys.sk, 2)), Some(<<66>>), Absent, "COMPRESS")
FacSig == SM2_sign(FacTwin, <<109>>, FacKeys.draw).out
FacCipher == SM2_encrypt(FacTwin, <<104>>, FacKeys.draw).out
FacPeerBegin == SM2_begin_key_exchange(FacPeer, FacKeys.draw).out

SM2FacInit ==
    /\ othersFacIdle
    /\ core_ecdlp = sm2p271
    /\ \E sk \in FacSkArgs, uid \in FacUidArgs, pk \in FacPkArgs, mode \in {"RAW", "COMPRESS"} :
           fac = SM2_new(sk, uid, pk, mode)
    /\ FacFresh

FacGenerateKeypair ==
    /\ fac_call.name = "none"
    /\ \E sk \in {1, 2, 255, 256, ecdlp.n - 2} :
           /\ randint_accepts(1, ecdlp.n - 2, sk)
           /\ fac_out' = SM2_generate_keypair(fac, sk)
           /\ fac_call' = [name |-> "generate_keypair", draw |-> sk]
    /\ UNCHANGED <<core_ecdlp, fac>>
    /\ UNCHANGED othersFac

FacSign ==
    /\ fac_call.name = "none"
    /\ \E m \in FacMessages, k \in FacDraws :
           \E x \in {SM2_sign(fac, m, k)} :
               /\ x.status # "continue"
               /\ fac_out' = x
               /\ fac_call' = [name |-> "sign", message |-> m,
                               draw |-> IF can_sign(fac) THEN k ELSE 0]
    /\ UNCHANGED <<core_ecdlp, fac>>
    /\ UNCHANGED othersFac

FacVerify ==
    /\ fac_call.name = "none"
    /\ \E m \in FacMessages, sig \in {FacSig} :
           /\ fac_out' = SM2_verify(fac, m, sig[1], sig[2])
           /\ fac_call' = [name |-> "verify", message |-> m]
    /\ UNCHANGED <<core_ecdlp, fac>>
    /\ UNCHANGED othersFac

FacEncrypt ==
    /\ fac_call.name = "none"
    /\ \E m \in FacMessages \ {<<>>}, k \in {1, 2, 256, ecdlp.n - 1} :
           \E x \in {SM2_encrypt(fac, m, k)} :
               /\ x.status # "continue"
               /\ fac_out' = x
               /\ fac_call' = [name |-> "encrypt", plain |-> m,
                               draw |-> IF can_encrypt(fac) THEN k ELSE 0]
    /\ UNCHANGED <<core_ecdlp, fac>>
    /\ UNCHANGED othersFac

FacDecrypt ==
    /\ fac_call.name = "none"
    /\ \E cipher \in {FacCipher} :
           /\ fac_out' = SM2_decrypt(fac, cipher)
           /\ fac_call' = [name |-> "decrypt", cipher |-> cipher]
    /\ UNCHANGED <<core_ecdlp, fac>>
    /\ UNCHANGED othersFac

FacBeginKeyExchange ==
    /\ fac_call.name = "none"
    /\ \E r \in {1, 2, 256, ecdlp.n - 1} :
           /\ fac_out' = SM2_begin_key_exchange(fac, r)
           /\ fac_call' = [name |-> "begin_key_exchange",
                           draw |-> IF can_exchange_key(fac) THEN r ELSE 0]
    /\ UNCHANGED <<core_ecdlp, fac>>
    /\ UNCHANGED othersFac

FacEndKeyExchange ==
    /\ fac_call.name = "none"
    /\ \E t \in {1, 7}, mode \in KEYXCHG_MODE :
           /\ fac_out' = SM2_end_key_exchange_on(fac, KXKlen, t, FacPeerBegin[1], <<65>>,
                             point_to_bytes(FacPeer.pk[1], "RAW"), mode)
           /\ fac_call' = [name |-> "end_key_exchange", t |-> t, mode |-> mode]
    /\ UNCHANGED <<core_ecdlp, fac>>
    /\ UNCHANGED othersFac

SM2FacNext ==
    \/ FacGenerateKeypair
    \/ FacSign
    \/ FacVerify
    \/ FacEncrypt
    \/ FacDecrypt
    \/ FacBeginKeyExchange
    \/ FacEndKeyExchange

SpecSM2Fac == SM2FacInit /\ [][SM2FacNext]_vars

(***************************************************************************)
(* Scalar multiplication as a call: EllipticCurve.mul and ECDLP.kG of      *)
(* ellipticcurve.py, and kG of core.py.                                    *)
(***************************************************************************)
ECMulInit ==
    /\ othersFnIdle
    /\ fn_in \in [k : 0..(ecdlp.n + 1), P : ValidPoints]
    /\ FnFresh

ECMul ==
    /\ fn_op = "new"
    /\ fn_out' = [status |-> "return", out |-> EllipticCurve_mul(ECDLP_ec, fn_in.k, fn_in.P)]
    /\ fn_op' = "mul"
    /\ UNCHANGED fn_in
    /\ UNCHANGED othersFn

ECkG ==
    /\ fn_op = "new"
    /\ fn_in.P = ecdlp.G
    /\ fn_out' = [status |-> "return", out |-> ECDLP_kG(fn_in.k)]
    /\ fn_op' = "kG"
    /\ UNCHANGED fn_in
    /\ UNCHANGED othersFn

CorekG ==
    /\ fn_op = "new"
    /\ fn_in.P = ecdlp.G
    /\ fn_out' = [status |-> "return", out |-> core_kG(fn_in.k)]
    /\ fn_op' = "core.kG"
    /\ UNCHANGED fn_in
    /\ UNCHANGED othersFn

ECMulNext == ECMul \/ ECkG \/ CorekG

SpecECMul == ECMulInit /\ [][ECMulNext]_vars

\* P added to itself k times.
RECURSIVE RefMul(_, _, _)
RefMul(ec, k, P) ==
    IF k = 0 THEN INF ELSE EllipticCurve_add(ec, RefMul(ec, k - 1, P), P)

(***************************************************************************)
(* Square roots as a call: PrimeField(p).sqrt(x), one prime for each       *)
(* residue of p modulo 8 that selects a different method.                  *)
(***************************************************************************)
SqrtPrimes == {7, 11, 13, 17, 41}

SqrtInit ==
    /\ othersFnIdle
    /\ \E p \in SqrtPrimes : fn_in \in [p : {p}, x : 0..(p - 1)]
    /\ FnFresh

\* sqrt has no raise statement: it returns the root or None.
SqrtCall ==
    /\ fn_op = "new"
    /\ fn_out' = [status |-> "return", out |-> PrimeField_sqrt(fn_in.p, fn_in.x)]
    /\ fn_op' = "sqrt"
    /\ UNCHANGED fn_in
    /\ UNCHANGED othersFn

SqrtNext == SqrtCall

SpecSqrt == SqrtInit /\ [][SqrtNext]_vars

IsSquare(p, x) == \E y \in 0..(p - 1) : (y * y) % p = x

(***************************************************************************)
(* SM9: the key generation centre issuing user keys.                       *)
(***************************************************************************)
\* Everything but the SM9 run is idle, and the core works on the groups
\* of bn19.
SM9Rest ==
    /\ core_ecdlp = bn19
    /\ fac = NoObject
    /\ FacFresh
    /\ SM3Idle /\ SM2Idle /\ KXIdle /\ BCIdle /\ PCIdle /\ FnIdle

S9Uids == {<<65>>, <<66>>, <<67>>}
S9Hids == {<<1>>, <<3>>}

SM9KeyInit ==
    /\ SM9Rest
    /\ s9_in \in [msk : 1..(ecdlp.n - 1), uid : S9Uids, hid : S9Hids]
    /\ S9Fresh

S9GenerateSkSign ==
    /\ s9_pc = "new"
    /\ s9_out' = SM9Core_generate_sk_sign(s9_in.hid, s9_in.msk, s9_in.uid)
    /\ s9_pc' = "sk_sign"
    /\ UNCHANGED <<s9_in, s9_mid>>
    /\ UNCHANGED othersS9

S9GenerateSkEncrypt ==
    /\ s9_pc = "new"
    /\ s9_out' = SM9Core_generate_sk_encrypt(s9_in.hid, s9_in.msk, s9_in.uid)
    /\ s9_pc' = "sk_encrypt"
    /\ UNCHANGED <<s9_in, s9_mid>>
    /\ UNCHANGED othersS9

SM9KeyNext == S9GenerateSkSign \/ S9GenerateSkEncrypt

SpecSM9Key == SM9KeyInit /\ [][SM9KeyNext]_vars

\* The exceptions errors.py defines: GMError and its subclasses.
GMErrors ==
    {"GMError", "CheckFailedError", "DataOverflowError", "IncorrectLengthError",
     "InfinitePointError", "InvalidArgumentError", "InvalidPCError",
     "PointNotOnCurveError", "RequireArgumentError", "UnknownError"}

(***************************************************************************)
(* SM9 encryption: the centre issues the key of uid, a sender encrypts to  *)
(* uid (or encapsulates a key of the same length), uid decrypts (or        *)
(* decapsulates).                                                          *)
(***************************************************************************)
S9HidE == <<3>>
\* Master keys: the ends of [1, n - 1], one inside, and the two for which
\* (H1(uid || hid) + msk) mod n = 0 for uid 65 and for uid 66.
S9Msks == {1, 2, 5, 13, ecdlp.n - 1}
S9Plains == {<<>>, <<0>>, <<255>>, <<255, 0>>}
S9MacKlens == 0..2
S9NoCipher == [status |-> "none", C1 |-> INF, C2 |-> <<>>, C3 |-> <<>>, K |-> <<>>]

\* klen of the encapsulate call: the one encrypt makes.
S9Klen == Len(s9_in.plain) + s9_in.mac_klen

SM9EncInit ==
    /\ SM9Rest
    /\ s9_in \in [msk : S9Msks, uid : {<<65>>, <<66>>}, plain : S9Plains,
                  mac_klen : S9MacKlens]
    /\ S9Fresh

\* generate_mpk_encrypt and generate_sk_encrypt at the centre.
S9IssueKey ==
    /\ s9_pc = "new"
    /\ \E x \in {SM9Core_generate_sk_encrypt(S9HidE, s9_in.msk, s9_in.uid)} :
           IF x.status = "return"
           THEN /\ s9_mid' = [mpk_e |-> SM9Core_generate_mpk_encrypt(s9_in.msk),
                              sk_e |-> x.out, enc |-> S9NoCipher]
                /\ s9_pc' = "keyed"
                /\ UNCHANGED s9_out
           ELSE /\ s9_out' = x
                /\ s9_pc' = "no_key"
                /\ UNCHANGED s9_mid
    /\ UNCHANGED s9_in
    /\ UNCHANGED othersS9

\* One pass of the loop that encrypt runs inside encapsulate.
S9EncryptPass ==
    /\ s9_pc \in {"keyed", "enc_continue"}
    /\ \E r \in RandBits(ecdlp.n - 1) :
           /\ randint_accepts(1, ecdlp.n - 1, r)
           /\ \E x \in {SM9Core_encrypt_pass(S9HidE, s9_mid.mpk_e, s9_in.plain, s9_in.uid,
                                               s9_in.mac_klen, r)} :
                  /\ s9_mid' = [s9_mid EXCEPT !.enc = x]
                  /\ s9_pc' = IF x.status = "return" THEN "encrypted" ELSE "enc_continue"
    /\ UNCHANGED <<s9_in, s9_out>>
    /\ UNCHANGED othersS9

S9Decrypt ==
    /\ s9_pc = "encrypted"
    /\ s9_out' = SM9Core_decrypt(s9_mid.enc.C1, s9_mid.enc.C2, s9_mid.enc.C3,
                                 s9_mid.sk_e, s9_in.uid, s9_in.mac_klen)
    /\ s9_pc' = "decrypted"
    /\ UNCHANGED <<s9_in, s9_mid>>
    /\ UNCHANGED othersS9

\* One pass of the loop of encapsulate, called by itself.
S9EncapsulatePass ==
    /\ s9_pc \in {"keyed", "cap_continue"}
    /\ \E r \in RandBits(ecdlp.n - 1) :
           /\ randint_accepts(1, ecdlp.n - 1, r)
           /\ \E x \in {SM9Core_encapsulate_pass(S9HidE, s9_mid.mpk_e, S9Klen, s9_in.uid, r)} :
                  /\ s9_mid' = [s9_mid EXCEPT !.enc =
                                    [status |-> x.status, C1 |-> x.C, C2 |-> <<>>,
                                     C3 |-> <<>>, K |-> x.K]]
                  /\ s9_pc' = IF x.status = "return" THEN "encapsulated" ELSE "cap_continue"
    /\ UNCHANGED <<s9_in, s9_out>>
    /\ UNCHANGED othersS9

S9Decapsulate ==
    /\ s9_pc = "encapsulated"
    /\ s9_out' = SM9Core_decapsulate(s9_mid.enc.C1, S9Klen, s9_mid.sk_e, s9_in.uid)
    /\ s9_pc' = "decapsulated"
    /\ UNCHANGED <<s9_in, s9_mid>>
    /\ UNCHANGED othersS9

SM9EncNext ==
    \/ S9IssueKey
    \/ S9EncryptPass
    \/ S9Decrypt
    \/ S9EncapsulatePass
    \/ S9Decapsulate

SpecSM9Enc == SM9EncInit /\ [][SM9EncNext]_vars

(***************************************************************************)
(* SM9 key exchange: the centre issues the keys of A and B under one       *)
(* master key, each side calls begin_key_exchange with the other's id and  *)
(* sends its R, then A ends as initiator and B as responder.               *)
(***************************************************************************)
S9KXKlen == 2

SM9KXInit ==
    /\ SM9Rest
    /\ s9_in \in [msk : S9Msks, uidA : {<<65>>}, uidB : {<<66>>},
                  klen : {S9KXKlen}, mode : {"RAW", "COMPRESS"}]
    /\ S9Fresh

\* The centre issues both keys and each user builds its SM9 object.
S9IssueKeys ==
    /\ s9_pc = "new"
    /\ \E mpk \in {SM9Core_generate_mpk_encrypt(s9_in.msk)},
          a \in {SM9Core_generate_sk_encrypt(S9HidE, s9_in.msk, s9_in.uidA)},
          b \in {SM9Core_generate_sk_encrypt(S9HidE, s9_in.msk, s9_in.uidB)} :
           IF a.status = "return" /\ b.status = "return"
           THEN /\ s9_mid' = [A |-> SM9_new(Some(S9HidE), Some(mpk), Some(a.out),
                                            Some(s9_in.uidA), s9_in.mode),
                              B |-> SM9_new(Some(S9HidE), Some(mpk), Some(b.out),
                                            Some(s9_in.uidB), s9_in.mode),
                              bA |-> NoResult, bB |-> NoResult]
                /\ s9_out' = [A |-> NoResult, B |-> NoResult]
                /\ s9_pc' = "keyed"
           ELSE /\ s9_out' = IF a.status = "return" THEN b ELSE a
                /\ s9_pc' = "no_key"
                /\ UNCHANGED s9_mid
    /\ UNCHANGED s9_in
    /\ UNCHANGED othersS9

S9BeginA ==
    /\ s9_pc = "keyed"
    /\ s9_mid.bA = NoResult
    /\ \E r \in RandBits(ecdlp.n - 1) :
           /\ randint_accepts(1, ecdlp.n - 1, r)
           /\ s9_mid' = [s9_mid EXCEPT !.bA = SM9_begin_key_exchange(s9_mid.A, s9_in.uidB, r)]
    /\ UNCHANGED <<s9_in, s9_pc, s9_out>>
    /\ UNCHANGED othersS9

S9BeginB ==
    /\ s9_pc = "keyed"
    /\ s9_mid.bB = NoResult
    /\ \E r \in RandBits(ecdlp.n - 1) :
           /\ randint_accepts(1, ecdlp.n - 1, r)
           /\ s9_mid' = [s9_mid EXCEPT !.bB = SM9_begin_key_exchange(s9_mid.B, s9_in.uidA, r)]
    /\ UNCHANGED <<s9_in, s9_pc, s9_out>>
    /\ UNCHANGED othersS9

S9EndA ==
    /\ s9_pc = "keyed"
    /\ s9_mid.bA.status = "return" /\ s9_mid.bB.status = "return"
    /\ s9_out.A = NoResult
    /\ s9_out' = [s9_out EXCEPT !.A =
                     SM9_end_key_exchange(s9_mid.A, s9_in.klen, s9_mid.bA.out[1],
                                          s9_mid.bA.out[2], s9_in.uidB, s9_mid.bB.out[2],
                                          "INITIATOR")]
    /\ UNCHANGED <<s9_in, s9_pc, s9_mid>>
    /\ UNCHANGED othersS9

S9EndB ==
    /\ s9_pc = "keyed"
    /\ s9_mid.bA.status = "return" /\ s9_mid.bB.status = "return"
    /\ s9_out.B = NoResult
    /\ s9_out' = [s9_out EXCEPT !.B =
                     SM9_end_key_exchange(s9_mid.B, s9_in.klen, s9_mid.bB.out[1],
                                          s9_mid.bB.out[2], s9_in.uidA, s9_mid.bA.out[2],
                                          "RESPONDER")]
    /\ UNCHANGED <<s9_in, s9_pc, s9_mid>>
    /\ UNCHANGED othersS9

SM9KXNext ==
    \/ S9IssueKeys
    \/ S9BeginA
    \/ S9BeginB
    \/ S9EndA
    \/ S9EndB

SpecSM9KX == SM9KXInit /\ [][SM9KXNext]_vars

(***************************************************************************)
(* PrimeField(p) as a call: the constructor on every modulus from 2 up.    *)
(***************************************************************************)
MaxModulus == 60

\* PrimeField.__init__: the object it leaves, or InvalidArgumentError when
\* p modulo 8 is none of 1, 3, 5, 7.
PrimeField_init(p) ==
    LET r == p % 8
    IN  IF r = 1 \/ r = 3 \/ r = 5 \/ r = 7
        THEN [status |-> "return",
              out |-> [p |-> p, e_length |-> PrimeField_e_length(p),
                       u |-> PrimeField_u(p), r |-> r]]
        ELSE [status |-> "InvalidArgumentError", out |-> <<>>]

FieldNewInit ==
    /\ othersFnIdle
    /\ fn_in \in [p : 2..MaxModulus]
    /\ FnFresh

FieldNew ==
    /\ fn_op = "new"
    /\ fn_out' = PrimeField_init(fn_in.p)
    /\ fn_op' = "PrimeField"
    /\ UNCHANGED fn_in
    /\ UNCHANGED othersFn

FieldNewNext == FieldNew

SpecFieldNew == FieldNewInit /\ [][FieldNewNext]_vars

IsPrime(p) == p >= 2 /\ \A d \in 2..(p - 1) : p % d # 0

(***************************************************************************)
(* The field tower as calls: inv and pow of PrimeField, PrimeField2,       *)
(* PrimeField4 and PrimeField12 over a prime p for which -2 is no square   *)
(* in Fp, u none in Fp2 and v no cube in Fp4.                              *)
(***************************************************************************)
TowerPrimes == {13, 37}
TowerLevels == {1, 2, 4, 12}
MaxExp == 6

\* The elements tried at each level: all of Fp and of Fp2, and those of
\* Fp4 and Fp12 whose components come from a few elements below.
TowerFp2Some == {<<0, 0>>, <<0, 1>>, <<1, 0>>, <<2, 3>>, <<4, 1>>}
TowerFp4Some == {PrimeField4_zero, PrimeField4_one, <<<<1, 0>>, <<0, 0>>>>,
                 <<<<2, 3>>, <<4, 1>>>>}
TowerElements(lvl, p) ==
    IF lvl = 1 THEN 0..(p - 1)
    ELSE IF lvl = 2 THEN (0..(p - 1)) \X (0..(p - 1))
    ELSE IF lvl = 4 THEN TowerFp2Some \X TowerFp2Some
    ELSE TowerFp4Some \X TowerFp4Some \X TowerFp4Some

\* The arguments inv gets that are no canonical elements: BNBIDH.__init__
\* calls self.fp1.inv(-2).
TowerLibraryArgs == {-2}

Tower_zero(lvl) ==
    IF lvl = 1 THEN 0 ELSE IF lvl = 2 THEN PrimeField2_zero
    ELSE IF lvl = 4 THEN PrimeField4_zero ELSE PrimeField12_zero
Tower_one(lvl) ==
    IF lvl = 1 THEN 1 ELSE IF lvl = 2 THEN PrimeField2_one
    ELSE IF lvl = 4 THEN PrimeField4_one ELSE PrimeField12_one
Tower_mul(lvl, p, X, Y) ==
    IF lvl = 1 THEN PrimeField_mul(p, X, Y) ELSE IF lvl = 2 THEN PrimeField2_mul(p, X, Y)
    ELSE IF lvl = 4 THEN PrimeField4_mul(p, X, Y) ELSE PrimeField12_mul(p, X, Y)
Tower_inv(lvl, p, X) ==
    IF lvl = 1 THEN PrimeField_inv(p, X) ELSE IF lvl = 2 THEN PrimeField2_inv(p, X)
    ELSE IF lvl = 4 THEN PrimeField4_inv(p, X) ELSE PrimeField12_inv(p, X)
Tower_pow(lvl, p, X, e) ==
    IF lvl = 1 THEN PrimeField_pow(p, X, e) ELSE IF lvl = 2 THEN PrimeField2_pow(p, X, e)
    ELSE IF lvl = 4 THEN PrimeField4_pow(p, X, e) ELSE PrimeField12_pow(p, X, e)

FieldInvInit ==
    /\ othersFnIdle
    /\ \E lvl \in TowerLevels, p \in TowerPrimes :
           fn_in \in [lvl : {lvl}, p : {p},
                      X : (TowerElements(lvl, p) \ {Tower_zero(lvl)})
                          \cup (IF lvl = 1 THEN TowerLibraryArgs ELSE {})]
    /\ FnFresh

\* inv(X), and mul(X, inv(X)) computed from what it returned.
FieldInv ==
    /\ fn_op = "new"
    /\ \E Y \in {Tower_inv(fn_in.lvl, fn_in.p, fn_in.X)} :
           fn_out' = [status |-> "return",
                      out |-> [Y |-> Y, prod |-> Tower_mul(fn_in.lvl, fn_in.p, fn_in.X, Y)]]
    /\ fn_op' = "inv"
    /\ UNCHANGED fn_in
    /\ UNCHANGED othersFn

FieldInvNext == FieldInv

SpecFieldInv == FieldInvInit /\ [][FieldInvNext]_vars

FieldPowInit ==
    /\ othersFnIdle
    /\ \E lvl \in TowerLevels, p \in TowerPrimes :
           fn_in \in [lvl : {lvl}, p : {p}, X : TowerElements(lvl, p), e : 0..MaxExp]
    /\ FnFresh

FieldPow ==
    /\ fn_op = "new"
    /\ fn_out' = [status |-> "return",
                  out |-> Tower_pow(fn_in.lvl, fn_in.p, fn_in.X, fn_in.e)]
    /\ fn_op' = "pow"
    /\ UNCHANGED fn_in
    /\ UNCHANGED othersFn

FieldPowNext == FieldPow

SpecFieldPow == FieldPowInit /\ [][FieldPowNext]_vars

\* All components of an element in [0, p).
RECURSIVE Canonical(_, _, _)
Canonical(lvl, p, X) ==
    IF lvl = 1 THEN X \in 0..(p - 1)
    ELSE IF lvl = 2 THEN Canonical(1, p, X[1]) /\ Canonical(1, p, X[2])
    ELSE IF lvl = 4 THEN Canonical(2, p, X[1]) /\ Canonical(2, p, X[2])
    ELSE Canonical(4, p, X[1]) /\ Canonical(4, p, X[2]) /\ Canonical(4, p, X[3])

\* The product of e copies of X.
RECURSIVE RefPow(_, _, _, _)
RefPow(lvl, p, X, e) ==
    IF e = 0 THEN Tower_one(lvl) ELSE Tower_mul(lvl, p, RefPow(lvl, p, X, e - 1), X)

(***************************************************************************)
(* BNBIDH (ellipticcurve.py): the pairing engine, on the BN curve of       *)
(* t = -2: p = 373, n = 349, y^2 = x^3 + 6 and its twist over Fp2.         *)
(***************************************************************************)
\* BNBIDH.__init__: p and n from t, the loop count 6t + 2, inv(-2).
BNBIDH_new(t, b, G1, G2) ==
    [t |-> t,
     p |-> 36 * t * t * t * t + 36 * t * t * t + 24 * t * t + 6 * t + 1,
     n |-> 36 * t * t * t * t + 36 * t * t * t + 18 * t * t + 6 * t + 1,
     b |-> b, G1 |-> G1, G2 |-> G2,
     a |-> 6 * t + 2,
     invU |-> PrimeField_inv(36 * t * t * t * t + 36 * t * t * t + 24 * t * t + 6 * t + 1, -2)]

bn373 == BNBIDH_new(-2, 6, <<1, 58>>, <<<<161, 330>>, <<159, 336>>>>)

\* BNBIDH._phi: a point of the twist as a point over Fp12.
BNBIDH_phi(bn, P) ==
    << <<PrimeField4_zero, <<<<P[1][2] * bn.invU, P[1][1]>>, PrimeField2_zero>>, PrimeField4_zero>>,
       <<PrimeField4_zero, PrimeField4_zero, <<<<P[2][2] * bn.invU, P[2][1]>>, PrimeField2_zero>>>> >>

\* EllipticCurve.INF beside points whose coordinates are elements of Fp12.
None12 == <<<<None2, None2>>, <<None2, None2>>, <<None2, None2>>>>
INF12 == <<None12, None12>>

\* The last lines of BNBIDH._g_fn: numerator and denominator of the line.
BNBIDH_g_fn_line(p, lam1, lam2, V, Q) ==
    [status |-> "return",
     g1 |-> PrimeField12_sub(p,
                PrimeField12_mul(p, lam1, PrimeField12_sub(p, Q[1], V[1])),
                PrimeField12_mul(p, lam2, PrimeField12_sub(p, Q[2], V[2]))),
     g2 |-> lam2]

\* BNBIDH._g_fn(U, V, Q); at a point at infinity it returns one(), which
\* the caller cannot unpack into g1, g2.
BNBIDH_g_fn(bn, U, V, Q) ==
    IF U = INF12 \/ V = INF12 \/ Q = INF12
    THEN [status |-> "ValueError", g1 |-> PrimeField12_one, g2 |-> PrimeField12_one]
    ELSE IF U[1] = V[1]
    THEN (IF PrimeField12_isoppo(bn.p, U[2], V[2])
          THEN [status |-> "return", g1 |-> PrimeField12_sub(bn.p, Q[1], V[1]),
                g2 |-> PrimeField12_one]
          ELSE IF U[2] = V[2]
          THEN BNBIDH_g_fn_line(bn.p,
                   PrimeField12_smul(bn.p, 3, PrimeField12_mul(bn.p, V[1], V[1])),
                   PrimeField12_smul(bn.p, 2, V[2]), V, Q)
          ELSE [status |-> "UnknownError", g1 |-> PrimeField12_one, g2 |-> PrimeField12_one])
    ELSE BNBIDH_g_fn_line(bn.p, PrimeField12_sub(bn.p, U[2], V[2]),
                          PrimeField12_sub(bn.p, U[1], V[1]), V, Q)

\* The first pass of the loop of BNBIDH.e, from the result of _g_fn on: it
\* prints g1, g2 and g = g1 / g2 and calls exit(0).
BNBIDH_e_pass(bn, g) ==
    IF g.status # "return" THEN [status |-> g.status, out |-> <<>>]
    ELSE [status |-> "SystemExit",
          out |-> <<g.g1, g.g2, PrimeField12_mul(bn.p, g.g1, PrimeField12_inv(bn.p, g.g2))>>]

BNBIDH_e_first(bn, _T, _P) == BNBIDH_e_pass(bn, BNBIDH_g_fn(bn, _T, _T, _P))

\* BNBIDH.e(P, Q).  The loop runs over the binary digits of 6t + 2 after
\* the first character, which are never none (6t + 2 is neither 0 nor 1),
\* so every call reaches the first pass and ends in it.
BNBIDH_e(bn, P, Q) ==
    BNBIDH_e_first(bn, BNBIDH_phi(bn, Q),
                   <<PrimeField12_extend(P[1]), PrimeField12_extend(P[2])>>)

\* k.G1 and k.G2 for k = 1..11 on the curve and the twist of bn373.
PairingG1 ==
    {<<1, 58>>, <<358, 354>>, <<263, 313>>, <<26, 70>>, <<240, 66>>, <<248, 185>>,
     <<231, 310>>, <<230, 236>>, <<336, 9>>, <<87, 263>>, <<217, 43>>}
PairingG2 ==
    {<<<<161, 330>>, <<159, 336>>>>, <<<<161, 362>>, <<288, 42>>>>,
     <<<<127, 213>>, <<315, 110>>>>, <<<<359, 317>>, <<9, 365>>>>,
     <<<<95, 77>>, <<188, 4>>>>, <<<<95, 305>>, <<325, 249>>>>,
     <<<<238, 72>>, <<65, 349>>>>, <<<<251, 7>>, <<98, 290>>>>,
     <<<<287, 42>>, <<47, 57>>>>, <<<<225, 342>>, <<65, 133>>>>,
     <<<<300, 343>>, <<65, 251>>>>}

bn373_ec1 == [p |-> bn373.p, a |-> 0, b |-> bn373.b, G |-> bn373.G1, n |-> bn373.n, h |-> 1]
bn373_ec2 ==
    [p |-> bn373.p, a |-> PrimeField2_zero,
     b |-> PrimeField2_mul(bn373.p, <<1, 0>>, PrimeField2_extend(bn373.b))]

PairingInit ==
    /\ othersFnIdle
    /\ fn_in \in [P : PairingG1, Q : PairingG2]
    /\ fn_out = [status |-> "none", out |-> <<>>]
    /\ fn_op = "idle"

\* e(P, Q).
PairingE ==
    /\ fn_op = "idle"
    /\ fn_out' = BNBIDH_e(bn373, fn_in.P, fn_in.Q)
    /\ fn_op' = "e"
    /\ UNCHANGED <<fn_in, othersFn>>

PairingNext == PairingE

SpecPairing == PairingInit /\ [][PairingNext]_vars

(***************************************************************************)
(* The group law as calls: EllipticCurve.add, sub and mul on curves of     *)
(* 17, 12 and 8 points; the last two have points with y = 0.               *)
(***************************************************************************)
GroupCurves ==
    {[p |-> 23, a |-> 20, b |-> 15], [p |-> 11, a |-> 1, b |-> 0], [p |-> 7, a |-> 6, b |-> 0]}

\* INF and the points that satisfy the curve equation with coordinates in [0, p).
GroupPoints(ec) ==
    {INF} \cup {P \in (0..(ec.p - 1)) \X (0..(ec.p - 1)) : EllipticCurve_isvalid(ec, P)}

MaxScalar == 20

ECAddInit ==
    /\ othersFnIdle
    /\ \E ec \in GroupCurves : fn_in \in [ec : {ec}, P : GroupPoints(ec), Q : GroupPoints(ec)]
    /\ FnFresh

\* add(P, Q).
ECAdd ==
    /\ fn_op = "new"
    /\ fn_out' = [status |-> "return", out |-> EllipticCurve_add(fn_in.ec, fn_in.P, fn_in.Q)]
    /\ fn_op' = "add"
    /\ UNCHANGED <<fn_in, othersFn>>

\* add(P, neg(P)).
ECAddNeg ==
    /\ fn_op = "new"
    /\ fn_in.Q = fn_in.P
    /\ fn_out' = [status |-> "return",
                  out |-> EllipticCurve_add(fn_in.ec, fn_in.P, EllipticCurve_neg(fn_in.ec, fn_in.P))]
    /\ fn_op' = "add neg"
    /\ UNCHANGED <<fn_in, othersFn>>

ECAddNext == ECAdd \/ ECAddNeg

SpecECAdd == ECAddInit /\ [][ECAddNext]_vars

ECSumInit ==
    /\ othersFnIdle
    /\ \E ec \in GroupCurves : fn_in \in [ec : {ec}, P : GroupPoints(ec), k : 1..MaxScalar]
    /\ FnFresh

\* mul(k, P).
ECSum ==
    /\ fn_op = "new"
    /\ fn_out' = [status |-> "return", out |-> EllipticCurve_mul(fn_in.ec, fn_in.k, fn_in.P)]
    /\ fn_op' = "mul"
    /\ UNCHANGED <<fn_in, othersFn>>

ECSumNext == ECSum

SpecECSum == ECSumInit /\ [][ECSumNext]_vars

\* The values Q takes in the loop of mul, the last one included.
RECURSIVE MulTrace(_, _, _, _)
MulTrace(ec, bits, P, Q) ==
    IF Len(bits) = 0 THEN {Q}
    ELSE {Q, EllipticCurve_add(ec, Q, Q)}
         \cup MulTrace(ec, Tail(bits), P,
                       IF Head(bits) = 1
                       THEN EllipticCurve_add(ec, EllipticCurve_add(ec, Q, Q), P)
                       ELSE EllipticCurve_add(ec, Q, Q))

(***************************************************************************)
(* Square roots in Fp2 as a call: PrimeField2(p).sqrt(X), for primes with  *)
(* ALPHA a non-residue, of both residues modulo 8 (7, 23: 7; 13: 5).       *)
(***************************************************************************)
Sqrt2Primes == {7, 13, 23}

Fp2Elements(p) == (0..(p - 1)) \X (0..(p - 1))

Sqrt2Init ==
    /\ othersFnIdle
    /\ \E p \in Sqrt2Primes : fn_in \in [p : {p}, X : Fp2Elements(p)]
    /\ FnFresh

Sqrt2Call ==
    /\ fn_op = "new"
    /\ fn_out' = [status |-> "return", out |-> PrimeField2_sqrt(fn_in.p, fn_in.X)]
    /\ fn_op' = "sqrt2"
    /\ UNCHANGED <<fn_in, othersFn>>

Sqrt2Next == Sqrt2Call

SpecSqrt2 == Sqrt2Init /\ [][Sqrt2Next]_vars

\* Whether X is the square of an element of Fp2.
IsSquare2(p, X) == \E Y \in Fp2Elements(p) : PrimeField2_mul(p, Y, Y) = X

(***************************************************************************)
(* A CFB object from its constructor on: BlockCipherModeCFB(bc, iv,        *)
(* segment_length) for any integer segment_length, then one call.          *)
(***************************************************************************)
SegsBelowZero == 2
CFBSegs == (0 - SegsBelowZero)..(block_length + 1)
CFBIVs == BcIVs \cup {Zeros(block_length - 1)}
CFBData == BytesUpTo({0, 255}, 2) \cup {[i \in 1..k |-> (37 * i) % 256] : k \in 3..(2 * block_length + 1)}

CFBUseInit ==
    /\ othersFnIdle
    /\ fn_in \in [iv : CFBIVs, seg : CFBSegs, data : CFBData]
    /\ FnFresh

CFBConstruct ==
    /\ fn_op = "new"
    /\ fn_out' = CFB_init(fn_in.iv, fn_in.seg)
    /\ fn_op' = "CFB"
    /\ UNCHANGED <<fn_in, othersFn>>

CFBEncryptCall ==
    /\ fn_op = "CFB"
    /\ fn_out.status = "return"
    /\ fn_out' = CFB_encrypt(fn_out.obj, fn_in.data)
    /\ fn_op' = "encrypt"
    /\ UNCHANGED <<fn_in, othersFn>>

CFBDecryptCall ==
    /\ fn_op = "CFB"
    /\ fn_out.status = "return"
    /\ fn_out' = CFB_decrypt(fn_out.obj, fn_in.data)
    /\ fn_op' = "decrypt"
    /\ UNCHANGED <<fn_in, othersFn>>

CFBUseNext == CFBConstruct \/ CFBEncryptCall \/ CFBDecryptCall

SpecCFBUse == CFBUseInit /\ [][CFBUseNext]_vars

(***************************************************************************)
(* The retry loops, one step per draw of rnd_fn: _randint(a, b) of base.py *)
(* and the loops of SM2Core.sign and SM2Core.encrypt around it.            *)
(***************************************************************************)
RandBelowZero == 2
MaxRand == 3
RetryKeys == {1, 6, ecdlp.n - 2}
RetryMessages == BytesUpTo(SM2Alphabet, 1)
RetryPlains == BytesUpTo(SM2Alphabet, MaxPlainLen)

\* What one pass of the loop of sign does with the draw k that _randint
\* returned: where it ends and what it returns.
SignPassEnds(pass) ==
    IF pass.ok THEN [pc |-> "return", out |-> [status |-> "return", out |-> <<pass.r, pass.s>>]]
    ELSE [pc |-> "continue", out |-> NoResult]

\* The same for encrypt, which may also raise.
EncryptPassEnds(pass) ==
    IF pass.status = "return"
    THEN [pc |-> "return", out |-> [status |-> "return", out |-> <<pass.C1, pass.C2, pass.C3>>]]
    ELSE IF pass.status = "continue" THEN [pc |-> "continue", out |-> NoResult]
    ELSE [pc |-> "raise", out |-> [status |-> pass.status, out |-> <<>>]]

\* What one pass of each loop does with each draw that _randint returns, a
\* function of the arguments of the call alone.
RetryPasses(op, sk, pk, arg) ==
    IF op = "sign"
    THEN [k \in 1..(ecdlp.n - 1) |->
             CHOOSE e \in {SignPassEnds(pass) :
                              pass \in {SM2Core_sign_pass(arg, sk, <<>>, pk, k)}} :
                 TRUE]
    ELSE IF op = "encrypt"
    THEN [k \in 1..(ecdlp.n - 1) |->
             CHOOSE e \in {EncryptPassEnds(pass) :
                              pass \in {SM2Core_encrypt_pass(arg, pk, k)}} :
                 TRUE]
    ELSE <<>>

RetryCalls ==
    {[op |-> "_randint", a |-> a, b |-> b, sk |-> 0, arg |-> <<>>] :
         a \in (0 - RandBelowZero)..MaxRand, b \in (0 - RandBelowZero)..MaxRand}
    \cup {[op |-> "sign", a |-> 1, b |-> ecdlp.n - 1, sk |-> sk, arg |-> m] :
              sk \in RetryKeys, m \in RetryMessages}
    \cup {[op |-> "encrypt", a |-> 1, b |-> ecdlp.n - 1, sk |-> sk, arg |-> m] :
              sk \in RetryKeys, m \in RetryPlains}

\* A call with its arguments; pass[k] is what one pass of its loop does
\* with the draw k.
RetryInit ==
    /\ othersFnIdle
    /\ \E c \in RetryCalls : \E pk \in {SM2Core_generate_pk(c.sk)} :
          /\ c.a <= c.b
          /\ fn_in = [op |-> c.op, a |-> c.a, b |-> c.b, sk |-> c.sk, arg |-> c.arg,
                      pass |-> RetryPasses(c.op, c.sk, pk, c.arg)]
    /\ FnFresh

\* The states in which a call is inside its loop: before the first draw,
\* after a draw that _randint rejected, after a pass that ended in continue.
InLoop == fn_op \in {"new", "draw", "continue"}

\* Nothing is returned yet: the loop holds the draw n that it goes past.
Rejected(n) == [status |-> "loop", out |-> n]

\* _randint(a, b): one draw n of rnd_fn(b.bit_length()).
RandintDraw(n) ==
    /\ fn_in.op = "_randint"
    /\ InLoop
    /\ n \in RandBits(fn_in.b)
    /\ IF randint_accepts(fn_in.a, fn_in.b, n)
       THEN fn_op' = "return" /\ fn_out' = [status |-> "return", out |-> n]
       ELSE fn_op' = "draw" /\ fn_out' = Rejected(n)
    /\ UNCHANGED <<fn_in, othersFn>>

\* sign and encrypt: one draw inside _randint(1, n - 1) and, when _randint
\* returns it, the pass of the loop it leads to.
LoopDraw(op, k) ==
    /\ fn_in.op = op
    /\ InLoop
    /\ k \in RandBits(fn_in.b)
    /\ IF ~randint_accepts(fn_in.a, fn_in.b, k)
       THEN fn_op' = "draw" /\ fn_out' = Rejected(k)
       ELSE /\ fn_op' = fn_in.pass[k].pc
            /\ fn_out' = IF fn_in.pass[k].pc = "continue" THEN Rejected(k)
                          ELSE fn_in.pass[k].out
    /\ UNCHANGED <<fn_in, othersFn>>

SignDraw(k) == LoopDraw("sign", k)

EncryptDraw(k) == LoopDraw("encrypt", k)

\* Every value rnd_fn can return in these calls.
RetryDraws == RandBits(ecdlp.n - 1)

RetryNext ==
    \/ \E n \in RetryDraws : RandintDraw(n)
    \/ \E k \in RetryDraws : SignDraw(k)
    \/ \E k \in RetryDraws : EncryptDraw(k)

SpecRetry == RetryInit /\ [][RetryNext]_vars

\* The draws that end a call.
RandintReturns == \E n \in RetryDraws : RandintDraw(n) /\ fn_op' = "return"
SignReturns == \E k \in RetryDraws : SignDraw(k) /\ fn_op' = "return"
EncryptReturns == \E k \in RetryDraws : EncryptDraw(k) /\ fn_op' = "return"

\* A fair RNG returns every value again and again.  Inside one call the
\* values that end it are the same at every pass, so fairness comes to
\* this: the loop keeps drawing and, while some value would end the call,
\* one such value is drawn in the end.
FairRetry ==
    /\ WF_vars(RetryNext)
    /\ WF_vars(RandintReturns)
    /\ WF_vars(SignReturns)
    /\ WF_vars(EncryptReturns)

FairSpecRetry == SpecRetry /\ FairRetry

C7_VerifyRejects ==
    (/\ sm2_pc = "checked"
     /\ \/ sm2_sig[1] = 0
        \/ sm2_sig[2] = 0
        \/ sm2_sig[1] = ecdlp.n
        \/ sm2_sig[2] = ecdlp.n
        \/ (sm2_sig[1] + sm2_sig[2]) % ecdlp.n = 0)
    => sm2_verdict = "False"

\* r and s both in range with r + s = n, on a public key that verify
\* could not have used.
C7_Witness ==
    /\ sm2_pc = "checked"
    /\ sm2_sig[1] \in 1..(ecdlp.n - 1)
    /\ sm2_sig[2] \in 1..(ecdlp.n - 1)
    /\ (sm2_sig[1] + sm2_sig[2]) % ecdlp.n = 0
    /\ sm2_vpk = INF
    /\ sm2_verdict = "False"

\* C2: encrypt(plain, pk) returns some (C1, C2, C3), for a plaintext of any
\* length the empty one included, and decrypt of what it returned gives
\* back plain.  A pass of encrypt's loop that ended in continue is followed
\* by a return only if some draw k in [1, n - 1] makes the pass return.
C2_EncryptDecrypt ==
    /\ sm2_pc = "enc_continue" =>
           \E k \in 1..(ecdlp.n - 1) :
               SM2Core_encrypt_pass(sm2_arg, sm2_pk, k).status = "return"
    /\ (sm2_pc = "decrypted" /\ sm2_cipher = sm2_sent) =>
           sm2_dec = [status |-> "return", M |-> sm2_arg]

\* The point sk.C1 and the key stream derived from it, as the receiver
\* of the ciphertext c recomputes them.
C8_S(c) == EllipticCurve_mul(ECDLP_ec, sm2_sk, c.C1)
C8_t(c) == key_derivation_fn(etob(C8_S(c)[1]) \o etob(C8_S(c)[2]), Len(c.C2))
C8_M(c) == XorZip(c.C2, C8_t(c))
C8_u(c) == hash_fn(etob(C8_S(c)[1]) \o C8_M(c) \o etob(C8_S(c)[2]))
C8_OffCurve(c) == c.C1 # INF /\ ~EllipticCurve_isvalid(ECDLP_ec, c.C1)
C8_OnCurve(c) == c.C1 # INF /\ EllipticCurve_isvalid(ECDLP_ec, c.C1)

C6_HashOfConcatenation ==
    /\ SM3_final(sm3).V = Blocks(Pad(sm3_fed))
    /\ sm3.msg_len = Len(sm3_fed)
    /\ sm3_op = "value" => sm3_out = RefDigest(sm3_fed)

\* A second value() call, on data that passed through the block loop.
C6_Witness ==
    /\ sm3_op = "value"
    /\ sm3_nvalue >= 2
    /\ Len(sm3_fed) = 2 * BlockLen
    /\ sm3_out = RefDigest(sm3_fed)

\* C3 (as amended): when both parties' values t are nonzero modulo n, both
\* end_key_exchange calls return a key and the two keys are the same bytes;
\* when one of them is zero modulo n, the other party's call raises
\* InfinitePointError, so the two never end with a key each.
C3_KeyAgreement ==
    (kx_pcA = "ended" /\ kx_pcB = "ended")
    => /\ (kx_tA % ecdlp.n # 0 /\ kx_tB % ecdlp.n # 0)
            => /\ kx_keyA.status = "return"
               /\ kx_keyB.status = "return"
               /\ kx_keyA.key = kx_keyB.key
       /\ kx_tA % ecdlp.n = 0 => kx_keyB.status = "InfinitePointError"
       /\ kx_tB % ecdlp.n = 0 => kx_keyA.status = "InfinitePointError"

\* C3 as stated: the same for any accepted draws.
C3_KeyAgreement_AnyDraws ==
    (kx_pcA = "ended" /\ kx_pcB = "ended")
    => /\ kx_keyA.status = "return"
       /\ kx_keyB.status = "return"
       /\ kx_keyA.key = kx_keyB.key

C3_Witness ==
    /\ kx_pcA = "ended"
    /\ kx_pcB = "ended"
    /\ kx_mode = "COMPRESS"
    /\ kx_keyA.status = "return"
    /\ Len(kx_keyA.key) = KXKlen
    /\ kx_keyA.key = kx_keyB.key

\* C4: for CFB with any segment length in 1..block_length and for OFB, a
\* plaintext encrypted in chunks of any lengths, then reset(), then the
\* ciphertext decrypted in chunks cut anywhere, comes back: at every point
\* the decrypt outputs so far are the plaintext up to the bytes fed.
C4_StreamRoundTrip ==
    /\ Len(bc_cipher) = Len(bc_plain)
    /\ bc_phase = "dec" => bc_dec = Slice(bc_plain, 0, bc_nfed)

\* A plaintext of two blocks and a byte, all of it back from a CFB object
\* whose segments are shorter than a block.
C4_Witness ==
    /\ bc_phase = "dec"
    /\ bc.kind = "CFB"
    /\ bc.seg < block_length
    /\ Len(bc_plain) = MaxStream
    /\ bc_nfed = MaxStream
    /\ bc_dec = bc_plain

\* C5: after any calls of encrypt and decrypt, raising ones included,
\* reset() leaves the object equal to one built afresh from the same
\* cipher, IV and segment length, and every later call then changes both
\* alike and returns the same on both.
C5_ResetRestores ==
    TwinLive => (bc = bc_twin /\ bc_out = bc_twin_out)

\* A CBC object that raised before its reset() and was called after it.
C5_Witness ==
    /\ TwinLive
    /\ bc.kind = "CBC"
    /\ bc_raised
    /\ bc_ncalls = MaxCalls
    /\ bc_out.status = "return"
    /\ Len(bc_out.out) = block_length
    /\ bc = bc_twin

\* C9: for every point P of the curve, INF included, and every mode,
\* bytes_to_point(point_to_bytes(P, mode)) returns P.
C9_PointRoundTrip ==
    pc_op = "decoded" => pc_back = [status |-> "return", P |-> pc_P]

\* A compressed point with an odd y, read back.
C9_Witness ==
    /\ pc_op = "decoded"
    /\ pc_mode = "COMPRESS"
    /\ pc_P # INF
    /\ pc_P[2] % 2 = 1
    /\ pc_bytes[1] = 3
    /\ pc_back = [status |-> "return", P |-> pc_P]

\* C10: for every point P of the twist curve over Fp2,
\* bytes_to_point_2(point_to_bytes_2(P, COMPRESS)) returns P, also when
\* the lower component of y is 0.
C10_PointRoundTrip2 ==
    (pc_op = "decoded" /\ pc_mode = "COMPRESS")
    => pc_back = [status |-> "return", P |-> pc_P]

\* Where that fails: only at points whose y has lower component 0.
C10_FailsOnlyAtZeroLower ==
    (pc_op = "decoded" /\ pc_mode = "COMPRESS" /\ pc_P # INF2 /\ pc_P[2][2] # 0)
    => pc_back = [status |-> "return", P |-> pc_P]

C12_EntityInfo ==
    fn_op = "called"
    => IF Len(fn_in.uid) * 8 >= Pow2(EntlBits)
       THEN fn_out.status = "DataOverflowError"
       ELSE fn_out.status = "return" /\ Len(fn_out.out) = hash_length

\* What entity_info does: it raises from one bit earlier, as soon as ENTL
\* needs EntlBits bits.
C12_RaisesOneBitEarly ==
    fn_op = "called"
    => IF Len(fn_in.uid) * 8 >= Pow2(EntlBits - 1)
       THEN fn_out.status = "DataOverflowError"
       ELSE fn_out.status = "return" /\ Len(fn_out.out) = hash_length

\* C13: a keyed operation of SM2 called on an object built without a key
\* or uid that the operation uses raises RequireArgumentError and nothing
\* else.  sign and begin_key_exchange use sk and uid, verify pk and uid,
\* encrypt pk, decrypt sk, end_key_exchange uid and pk.
C13_Lacks ==
    \/ fac_call.name \in {"sign", "begin_key_exchange"} /\ (fac.sk = Absent \/ fac.uid = Absent)
    \/ fac_call.name = "verify" /\ (fac.pk = Absent \/ fac.uid = Absent)
    \/ fac_call.name = "encrypt" /\ fac.pk = Absent
    \/ fac_call.name = "decrypt" /\ fac.sk = Absent
    \/ fac_call.name = "end_key_exchange" /\ (fac.uid = Absent \/ fac.pk = Absent)

\* C13: a call of the SM2 class whose needed argument was not given to the
\* constructor raises RequireArgumentError.
C13_RequireArgument == C13_Lacks => fac_out.status = "RequireArgumentError"

\* What holds: every operation but end_key_exchange raises
\* RequireArgumentError on such an object.
C13_AllButEndKeyExchange ==
    (C13_Lacks /\ fac_call.name # "end_key_exchange")
    => fac_out.status = "RequireArgumentError"

\* C14: sign returns r and s, and generate_keypair returns sk, each as
\* exactly as many bytes as n has, whatever the scalar's leading zero bytes.
C14_FixedWidth ==
    (fac_call.name \in {"sign", "generate_keypair"} /\ fac_out.status = "return")
    => IF fac_call.name = "sign"
       THEN /\ Len(fac_out.out[1]) = PrimeField_e_length(ecdlp.n)
            /\ Len(fac_out.out[2]) = PrimeField_e_length(ecdlp.n)
       ELSE Len(fac_out.out[1]) = PrimeField_e_length(ecdlp.n)

\* What holds instead: each scalar comes as the fewest bytes that hold it,
\* with no leading zero byte.
C14_MinimalWidth ==
    (fac_call.name \in {"sign", "generate_keypair"} /\ fac_out.status = "return")
    => /\ fac_out.out[1][1] # 0
       /\ fac_call.name = "sign" => fac_out.out[2][1] # 0

\* C19: ECDLP.kG(0) returns the point at infinity.
C19_kG0 ==
    (fn_op = "kG" /\ fn_in.k = 0) => fn_out.out = INF

\* What holds: mul and kG return the k-fold sum for every k >= 1 and return
\* P itself for k = 0; kG of core.py returns the k-fold sum for every k,
\* INF for k = 0.
C19_kG0_IsG ==
    /\ fn_op \in {"mul", "kG"}
       => fn_out.out = IF fn_in.k = 0 THEN fn_in.P
                       ELSE RefMul(ECDLP_ec, fn_in.k, fn_in.P)
    /\ fn_op = "core.kG" => fn_out.out = RefMul(ECDLP_ec, fn_in.k, fn_in.P)

\* C20: PrimeField(p).sqrt(x) returns a square root of x for every x that
\* has one, zero included, for p in every residue class modulo 8, and fails
\* with NoSquareRoot exactly when x has none.
C20_Sqrt ==
    fn_op = "sqrt"
    => IF IsSquare(fn_in.p, fn_in.x)
       THEN /\ fn_out.status = "return"
            /\ fn_out.out \in 0..(fn_in.p - 1)
            /\ (fn_out.out * fn_out.out) % fn_in.p = fn_in.x
       ELSE fn_out.status = "NoSquareRoot"

\* What holds: sqrt never raises; a value other than None is a square root
\* of x; for p = 3, 7 (mod 8) None is returned exactly for the non-squares;
\* for p = 5 (mod 8) the square 0 also gets None.
C20_SqrtReturns ==
    fn_op = "sqrt"
    => /\ fn_out.status = "return"
       /\ fn_out.out # None
          => /\ fn_out.out \in 0..(fn_in.p - 1)
             /\ (fn_out.out * fn_out.out) % fn_in.p = fn_in.x
       /\ fn_in.p % 4 = 3
          => (fn_out.out = None <=> ~IsSquare(fn_in.p, fn_in.x))
       /\ fn_in.p % 8 = 5
          => (fn_out.out = None <=> (fn_in.x = 0 \/ ~IsSquare(fn_in.p, fn_in.x)))

\* A square of a field with p = 1 (mod 8) for which sqrt returns None.
C20_SquareWithoutRoot ==
    /\ fn_op = "sqrt"
    /\ fn_in.p % 8 = 1
    /\ fn_in.x # 0
    /\ IsSquare(fn_in.p, fn_in.x)
    /\ fn_out.out = None

\* (H1(uid || hid) + msk) mod n of the run, and whether the call made
\* returned t.G for the t with t.(H1 + msk) = msk (mod n).
C18_t1 == (SM9Core_H1(s9_in.uid \o s9_in.hid) + s9_in.msk) % ecdlp.n
C18_ReturnsKey ==
    /\ s9_out.status = "return"
    /\ \E t \in 1..(ecdlp.n - 1) :
           /\ (t * C18_t1) % ecdlp.n = s9_in.msk
           /\ s9_pc = "sk_sign" => s9_out.out = RefMul(ECDLP_ec, t, ecdlp.G)
           /\ s9_pc = "sk_encrypt" => s9_out.out = t

\* C18: generate_sk_sign and generate_sk_encrypt fail with the library's
\* InvalidUserKey error, a GMError subclass, exactly when
\* (H1(uid || hid) + msk) mod n = 0, and otherwise return t2.G with
\* t2.(H1(uid || hid) + msk) = msk (mod n).
C18_InvalidUserKey ==
    s9_pc \in {"sk_sign", "sk_encrypt"}
    => IF C18_t1 = 0
       THEN s9_out.status = "InvalidUserKeyError"
       ELSE C18_ReturnsKey

\* What holds: the key is returned as claimed when the sum is not 0, and
\* when it is 0 the call ends in AttributeError, which is no GMError.
C18_AttributeError ==
    s9_pc \in {"sk_sign", "sk_encrypt"}
    => IF C18_t1 = 0
       THEN s9_out.status = "AttributeError" /\ s9_out.status \notin GMErrors
       ELSE C18_ReturnsKey

\* C15: for every master key, every uid whose key the centre can issue,
\* every plaintext and every mac_klen, encrypt returns a ciphertext that
\* decrypt turns back into the plaintext, and decapsulate recovers the key
\* encapsulate made.  A pass that ended in continue is followed by a return
\* only if some draw r in [1, n - 1] makes the pass return.
C15_RoundTrip ==
    /\ s9_pc \in {"enc_continue", "cap_continue"} =>
           \E r \in 1..(ecdlp.n - 1) :
               SM9Core_encapsulate_pass(S9HidE, s9_mid.mpk_e, S9Klen, s9_in.uid, r).status
                   = "return"
    /\ s9_pc = "decrypted" => s9_out = [status |-> "return", out |-> s9_in.plain]
    /\ s9_pc = "decapsulated" => s9_out = [status |-> "return", out |-> s9_mid.enc.K]

\* What holds: the round trips, and a return of encrypt and encapsulate
\* for some draw, whenever len(plain) + mac_klen > 0.
C15_RoundTripUnlessNoKey ==
    /\ (s9_pc \in {"enc_continue", "cap_continue"} /\ S9Klen > 0) =>
           \E r \in 1..(ecdlp.n - 1) :
               SM9Core_encapsulate_pass(S9HidE, s9_mid.mpk_e, S9Klen, s9_in.uid, r).status
                   = "return"
    /\ s9_pc = "decrypted" => s9_out = [status |-> "return", out |-> s9_in.plain]
    /\ s9_pc = "decapsulated" => s9_out = [status |-> "return", out |-> s9_mid.enc.K]
    /\ s9_pc \in {"encrypted", "encapsulated"} => S9Klen > 0

\* encrypt with nothing to encrypt and no MAC key: every pass continues.
C15_NeverReturns ==
    /\ s9_pc = "enc_continue"
    /\ S9Klen = 0
    /\ \A r \in 1..(ecdlp.n - 1) :
           SM9Core_encrypt_pass(S9HidE, s9_mid.mpk_e, s9_in.plain, s9_in.uid,
                                s9_in.mac_klen, r).status = "continue"

\* The MAC key of the ciphertext encrypt returned: what follows the first
\* len(plain) bytes of the encapsulated key K.
C17_K2 == Slice(s9_mid.enc.K, Len(s9_in.plain), Len(s9_mid.enc.K))

\* C17: the MAC of encrypt and decrypt is C3 = H(K2 || C2), the MAC key K2
\* followed by the ciphertext C2, with K = K1 || K2, len(K1) = len(plain)
\* and len(K2) = mac_klen.
C17_MacKeyFirst ==
    s9_pc = "encrypted"
    => /\ Len(s9_mid.enc.C2) = Len(s9_in.plain)
       /\ Len(C17_K2) = s9_in.mac_klen
       /\ s9_mid.enc.C3 = hash_fn(C17_K2 \o s9_mid.enc.C2)

\* C17 as amended: C3 = H(C2 || K2), the ciphertext followed by the MAC
\* key; decrypt recomputes the same value and accepts what encrypt made.
C17_MacKeyLast ==
    /\ s9_pc = "encrypted"
       => /\ Len(s9_mid.enc.C2) = Len(s9_in.plain)
          /\ Len(C17_K2) = s9_in.mac_klen
          /\ s9_mid.enc.C3 = hash_fn(s9_mid.enc.C2 \o C17_K2)
    /\ s9_pc = "decrypted" => s9_out.status = "return"

\* A ciphertext with a plaintext and a MAC key for which the two orders
\* give different hashes, after decrypt accepted it.
C17_Witness ==
    /\ s9_pc = "decrypted"
    /\ s9_out.status = "return"
    /\ Len(s9_in.plain) > 0
    /\ s9_in.mac_klen > 0
    /\ s9_mid.enc.C3 = hash_fn(s9_mid.enc.C2 \o C17_K2)
    /\ s9_mid.enc.C3 # hash_fn(C17_K2 \o s9_mid.enc.C2)

\* C16: with keys issued under one master key and any draws rA, rB, the
\* key A derives as initiator and the key B derives as responder, for the
\* same klen, are the same klen bytes.
C16_SameKey ==
    (s9_pc = "keyed" /\ s9_out.A # NoResult /\ s9_out.B # NoResult)
    => /\ s9_out.A.status = "return"
       /\ s9_out.B.status = "return"
       /\ s9_out.A.out = s9_out.B.out
       /\ Len(s9_out.A.out) = s9_in.klen

\* Both sides have ended an exchange made with different draws.
C16_Witness ==
    /\ s9_pc = "keyed"
    /\ s9_out.A.status = "return"
    /\ s9_out.B.status = "return"
    /\ s9_out.A.out = s9_out.B.out
    /\ Len(s9_out.A.out) > 0
    /\ s9_mid.bA.out[1] # s9_mid.bB.out[1]

\* C21: PrimeField(p) fails with InvalidArgumentError for every p that is
\* not a prime, the odd composites included; no object with a composite
\* modulus is returned.
C21_CompositeRejected ==
    (fn_op = "PrimeField" /\ ~IsPrime(fn_in.p)) => fn_out.status = "InvalidArgumentError"

\* What the constructor does: it rejects exactly the even moduli, the prime
\* 2 among them, and returns an object for every odd one.
C21_EvenRejected ==
    fn_op = "PrimeField" =>
        /\ fn_in.p % 2 = 0 => fn_out.status = "InvalidArgumentError"
        /\ fn_in.p % 2 = 1 => (fn_out.status = "return" /\ fn_out.out.p = fn_in.p)

\* A field object whose modulus is an odd composite.
C21_CompositeField ==
    /\ fn_op = "PrimeField"
    /\ fn_in.p = 9
    /\ fn_out.status = "return"

\* C26: at every level of the tower inv(X) has all its components in
\* [0, p) and mul(X, inv(X)) = one(), for every nonzero canonical X and for
\* the arguments the library passes to PrimeField.inv, the -2 of the
\* pairing engine among them.
C26_Inverse ==
    fn_op = "inv" =>
        /\ Canonical(fn_in.lvl, fn_in.p, fn_out.out.Y)
        /\ fn_out.out.prod = Tower_one(fn_in.lvl)

\* The same for canonical X alone; for a negative argument the loop of
\* PrimeField.inv makes no pass and returns 0.
C26_InverseOfCanonical ==
    fn_op = "inv" =>
        /\ Canonical(fn_in.lvl, fn_in.p, fn_out.out.Y)
        /\ Canonical(fn_in.lvl, fn_in.p, fn_in.X) => fn_out.out.prod = Tower_one(fn_in.lvl)
        /\ (fn_in.lvl = 1 /\ fn_in.X < 0) => fn_out.out.Y = 0

\* inv(-2) as BNBIDH.__init__ computes it: 0, which is no inverse.
C26_NoInverseOfMinus2 ==
    /\ fn_op = "inv"
    /\ fn_in.lvl = 1
    /\ fn_in.X = -2
    /\ fn_out.out.Y = 0
    /\ fn_out.out.prod # 1

\* C27: at every level pow(X, e) is the product of e copies of X, for every
\* element X and every e >= 0; pow(X, 0) = one() and pow(X, 1) = X.
C27_Pow ==
    fn_op = "pow" => fn_out.out = RefPow(fn_in.lvl, fn_in.p, fn_in.X, fn_in.e)

\* What pow does: the product for e >= 1 at every level and for e = 0 in
\* Fp; above Fp, pow(X, 0) is X.
C27_PowFromOne ==
    fn_op = "pow" =>
        IF fn_in.e >= 1 \/ fn_in.lvl = 1
        THEN fn_out.out = RefPow(fn_in.lvl, fn_in.p, fn_in.X, fn_in.e)
        ELSE fn_out.out = fn_in.X

\* pow(X, 0) in Fp12 that is not one().
C27_PowZeroIsX ==
    /\ fn_op = "pow"
    /\ fn_in.lvl = 12
    /\ fn_in.e = 0
    /\ fn_out.out = fn_in.X
    /\ fn_out.out # PrimeField12_one

\* C22: the pairing e of the BN engine returns a value for every valid
\* pair of points, is non-degenerate and is bilinear: e(P + P, Q) is the
\* square of e(P, Q).
C22_Pairing ==
    fn_op = "e" =>
        /\ fn_out.status = "return"
        /\ fn_out.out # PrimeField12_one
        /\ BNBIDH_e(bn373, EllipticCurve_add(bn373_ec1, fn_in.P, fn_in.P), fn_in.Q).out
               = PrimeField12_mul(bn373.p, fn_out.out, fn_out.out)

\* What e does: every call leaves the interpreter in the first pass of its
\* loop, after printing g1, g2 and their quotient.
C22_EndsInExit ==
    fn_op = "e" => fn_out.status = "SystemExit" /\ Len(fn_out.out) = 3

\* The inputs are points of the curve and of its twist, and inv(-2) is 0.
C22_ValidPair ==
    /\ fn_op = "e"
    /\ EllipticCurve_isvalid(bn373_ec1, fn_in.P)
    /\ EllipticCurve2_isvalid(bn373_ec2, fn_in.Q)
    /\ bn373.p = 373 /\ bn373.n = 349 /\ bn373.invU = 0
    /\ fn_out.status = "SystemExit"

\* C24: the valid points together with INF are closed under add, which
\* never raises; INF is the identity; add(P, neg(P)) = INF; doubling a
\* point with y = 0 yields INF.
C24_AddClosed ==
    /\ fn_op = "add" =>
        /\ fn_out.out # EcUnknownError
        /\ fn_out.out \in GroupPoints(fn_in.ec)
        /\ fn_in.Q = INF => fn_out.out = fn_in.P
        /\ fn_in.P = INF => fn_out.out = fn_in.Q
        /\ (fn_in.P # INF /\ fn_in.Q = fn_in.P /\ fn_in.P[2] = 0) => fn_out.out = INF
    /\ fn_op = "add neg" => fn_out.out = INF

\* What holds: all of it for add, and add(P, neg(P)) = INF for every point
\* P other than INF; neg(INF) is (inf, nan), and so is add(INF, neg(INF)).
C24_AddClosedNegFinite ==
    /\ fn_op = "add" =>
        /\ fn_out.out # EcUnknownError
        /\ fn_out.out \in GroupPoints(fn_in.ec)
        /\ fn_in.Q = INF => fn_out.out = fn_in.P
        /\ fn_in.P = INF => fn_out.out = fn_in.Q
        /\ (fn_in.P # INF /\ fn_in.Q = fn_in.P /\ fn_in.P[2] = 0) => fn_out.out = INF
    /\ fn_op = "add neg" => fn_out.out = IF fn_in.P = INF THEN InfNaN ELSE INF

\* A point with y = 0 doubled.
C24_TwoTorsionDoubled ==
    /\ fn_op = "add"
    /\ fn_in.P # INF
    /\ fn_in.P[2] = 0
    /\ fn_in.Q = fn_in.P
    /\ fn_out.out = INF

\* C25: mul(k, P) is the k-fold sum of P computed with add, for every valid
\* point P and every k >= 1, also when a value inside the loop is INF, P
\* or neg(P); mul(n, P) = INF when the order of P divides n.
C25_MulIsSum ==
    fn_op = "mul" =>
        /\ fn_out.out = RefMul(fn_in.ec, fn_in.k, fn_in.P)
        /\ \A d \in 1..fn_in.k :
              (fn_in.k % d = 0 /\ RefMul(fn_in.ec, d, fn_in.P) = INF) => fn_out.out = INF

\* mul on a point other than INF whose loop passes through INF and ends
\* elsewhere.
C25_ThroughInfinity ==
    /\ fn_op = "mul"
    /\ fn_in.P # INF
    /\ INF \in MulTrace(fn_in.ec, Tail(BinDigits(fn_in.k)), fn_in.P, fn_in.P)
    /\ fn_out.out # INF
    /\ fn_out.out = RefMul(fn_in.ec, fn_in.k, fn_in.P)

\* C29: PrimeField2.sqrt(X) returns Y with mul(Y, Y) = X for every square
\* X of Fp2, those whose roots have a zero lower component and X = 0
\* included, and returns None only when X has no square root.
C29_Sqrt2 ==
    fn_op = "sqrt2" =>
        IF IsSquare2(fn_in.p, fn_in.X)
        THEN /\ fn_out.out # None2
             /\ PrimeField2_mul(fn_in.p, fn_out.out, fn_out.out) = fn_in.X
        ELSE fn_out.out = None2

\* What holds: a non-square gets None, and for X with a nonzero upper
\* component whatever sqrt returns other than None is a root of X.
C29_Sqrt2NoFalseRoot ==
    fn_op = "sqrt2" =>
        /\ ~IsSquare2(fn_in.p, fn_in.X) => fn_out.out = None2
        /\ fn_in.X[1] # 0 =>
              (fn_out.out # None2 => PrimeField2_mul(fn_in.p, fn_out.out, fn_out.out) = fn_in.X)

\* A square X of Fp2 for which sqrt returns (0, 0), whose square is not X.
C29_WrongRoot ==
    /\ fn_op = "sqrt2"
    /\ IsSquare2(fn_in.p, fn_in.X)
    /\ fn_out.out = PrimeField2_zero
    /\ fn_in.X # PrimeField2_zero

\* A square X of Fp2 for which sqrt returns None.
C29_MissedRoot ==
    /\ fn_op = "sqrt2"
    /\ IsSquare2(fn_in.p, fn_in.X)
    /\ fn_out.out = None2

\* C28: the constructor of BlockCipherModeCFB rejects only a
\* segment_length greater than block_length (and an iv of the wrong
\* length), and every object it accepts is usable: encrypt and decrypt
\* return exactly len(data) bytes without raising.
C28_CFBUsable ==
    /\ fn_op = "CFB" =>
          fn_out.status = IF Len(fn_in.iv) # block_length THEN "IncorrectLengthError"
                          ELSE IF fn_in.seg > block_length THEN "InvalidArgumentError"
                          ELSE "return"
    /\ fn_op \in {"encrypt", "decrypt"} =>
          /\ fn_out.status = "return"
          /\ Len(fn_out.out) = Len(fn_in.data)

\* What holds: the constructor as above; the calls return len(data) bytes
\* when segment_length is in 1..block_length; with 0 they raise
\* ZeroDivisionError on data that is not empty, and with a negative
\* segment_length they return at most one short head of the data.
C28_CFBUsableFrom1 ==
    /\ fn_op = "CFB" =>
          fn_out.status = IF Len(fn_in.iv) # block_length THEN "IncorrectLengthError"
                          ELSE IF fn_in.seg > block_length THEN "InvalidArgumentError"
                          ELSE "return"
    /\ fn_op \in {"encrypt", "decrypt"} =>
          IF fn_in.seg >= 1
          THEN fn_out.status = "return" /\ Len(fn_out.out) = Len(fn_in.data)
          ELSE IF fn_in.seg = 0
          THEN (IF fn_in.data = <<>> THEN fn_out.status = "return"
                ELSE fn_out.status = "ZeroDivisionError")
          ELSE /\ fn_out.status = "return"
               /\ Len(fn_out.out) = Min(Len(fn_in.data), Len(Slice(fn_in.iv, 0, fn_in.seg)))

\* encrypt on an object built with segment_length 0 raises.
C28_ZeroSegmentRaises ==
    /\ fn_op = "encrypt"
    /\ fn_in.seg = 0
    /\ fn_out.status = "ZeroDivisionError"

\* decrypt on an object built with a negative segment_length returns fewer
\* bytes than it was given.
C28_NegativeSegmentShort ==
    /\ fn_op = "decrypt"
    /\ fn_in.seg < 0
    /\ fn_out.status = "return"
    /\ Len(fn_out.out) < Len(fn_in.data)

\* C30: in every state of a stream-mode object with segment_length in
\* 1..block_length: the shift register of CFB holds exactly block_length
\* bytes and its key stream remainder between 1 and segment_length bytes;
\* the key stream remainder of OFB holds between 1 and block_length bytes
\* and its next key stream input exactly block_length; the key stream bytes
\* consumed since construction or reset() are as many as the data bytes
\* processed, and every call returns as many bytes as it was given.
C30_StreamState ==
    LET unit == IF bc.kind = "CFB" THEN bc.seg ELSE block_length
        processed == IF bc_phase = "enc" THEN Len(bc_plain) ELSE bc_nfed
    IN  /\ bc.kind = "CFB" =>
              /\ bc.seg \in 1..block_length
              /\ Len(bc.sr) = block_length
              /\ Len(bc.ks) \in 1..bc.seg
        /\ bc.kind = "OFB" =>
              /\ Len(bc.ks) \in 1..block_length
              /\ Len(bc.nk) = block_length
        /\ Len(bc.ks) = unit - (processed % unit)
        /\ Len(bc_cipher) = Len(bc_plain)
        /\ Len(bc_dec) = bc_nfed

\* A CFB object with two-byte segments stopped in the middle of its second
\* segment, and an OFB object stopped in the middle of a block while
\* decrypting.
C30_MidSegment ==
    \/ /\ bc.kind = "CFB"
       /\ bc.seg = block_length
       /\ bc_phase = "enc"
       /\ Len(bc_plain) = block_length + 1
       /\ Len(bc.ks) = block_length - 1
    \/ /\ bc.kind = "OFB"
       /\ bc_phase = "dec"
       /\ bc_nfed = block_length + 1
       /\ Len(bc.ks) = block_length - 1

\* C23: under a fair RNG every retry loop terminates: _randint(a, b) with
\* a <= b eventually returns some n in [a, b], sign and encrypt eventually
\* return a result for every valid key and every message or plaintext, and
\* no call ends in an error because of a rejected draw.
C23_RetryLoopsReturn ==
    /\ [](fn_op # "raise")
    /\ [](fn_op = "return" /\ fn_in.op = "_randint"
              => fn_in.a <= fn_out.out /\ fn_out.out <= fn_in.b)
    /\ <>(fn_op = "return")

\* What holds: the same for _randint(a, b) with b >= 0, for sign, and for
\* encrypt on a plaintext that is not empty.
C23_ReturnUnlessEmpty ==
    /\ [](fn_op # "raise")
    /\ [](fn_op = "return" /\ fn_in.op = "_randint"
              => fn_in.a <= fn_out.out /\ fn_out.out <= fn_in.b)
    /\ ((fn_in.op = "_randint" => fn_in.b >= 0) /\ (fn_in.op = "encrypt" => fn_in.arg # <<>>))
           => <>(fn_op = "return")

\* encrypt of the empty plaintext after a pass: it is in its loop, and no
\* draw makes the next pass return.
C23_EmptyPlaintextLoops ==
    /\ fn_in.op = "encrypt"
    /\ fn_in.arg = <<>>
    /\ fn_op = "continue"
    /\ \A k \in fn_in.a..fn_in.b : fn_in.pass[k].pc = "continue"

=============================================================================
